---- MODULE Spec2Model ----
(***************************************************************************)
(* Star Jet sales entry (sales.js): input sanitizing, bounded numeric      *)
(* validation, the row total calculator, the totals recomputation and the  *)
(* submit handler of the sales form; sales tracking (sales-track.js) with  *)
(* the status changes and the deletion of a sale, and the routes of        *)
(* server.js they end in; the login lockout (login.js), the access control *)
(* of the pages (supabase.js), csrfProtection (server.js), the expense     *)
(* form (expenses.js) and the filtered statistics (statistics.js).         *)
(*                                                                         *)
(* Strings are sequences of one-character strings.  A JavaScript Number is *)
(* a record [k, neg, d, e]: k is "nan", "inf" or "fin"; a finite number is *)
(* (-1)^neg * d * 10^e with d a big-endian sequence of decimal digits      *)
(* without leading or trailing zeros (zero is the empty sequence, e = 0).  *)
(* Arithmetic is exact decimal arithmetic on digit sequences, so that the  *)
(* magnitudes the code compares with Number.MAX_SAFE_INTEGER are           *)
(* representable; the numeric inputs the specifications draw are integers  *)
(* and dyadic fractions, on which IEEE doubles below 2^53 are exact too.   *)
(***************************************************************************)
EXTENDS Integers, Sequences, FiniteSets, TLC

VARIABLES
    rows,                 \* the <tr> of #itemsTbody: item, width, length, quantity, unitPrice, itemTotal
    discountField,        \* value of #discount
    supTotalField,        \* value of #supTotal
    totalField,           \* value of #total
    lastSubmissionTime,   \* window.lastSubmissionTime (0 = undefined)
    location,             \* window.location.href: "sales" or "quotation"
    effect,               \* what the handler that ran last did: alerts, toasts, createSale call
    call,                 \* a direct call of one of the pure functions: its name and arguments
    ret,                  \* the value that call returned
    track,                \* the sales tracking page, its user and the sales table of the server
    login,                \* the SecureLogin object of login.html and the clock it reads
    server,               \* the csrfTokens map of server.js and the answer to the last request
    expense               \* the expense form of expenses.html and what its submit handler did

vars == <<rows, discountField, supTotalField, totalField, lastSubmissionTime,
          location, effect, call, ret, track, login, server, expense>>

-----------------------------------------------------------------------------
(* Characters *)

DigitChars == <<"0", "1", "2", "3", "4", "5", "6", "7", "8", "9">>

UpperChars == <<"A", "B", "C", "D", "E", "F", "G", "H", "I", "J", "K", "L", "M",
                "N", "O", "P", "Q", "R", "S", "T", "U", "V", "W", "X", "Y", "Z">>

LowerChars == <<"a", "b", "c", "d", "e", "f", "g", "h", "i", "j", "k", "l", "m",
                "n", "o", "p", "q", "r", "s", "t", "u", "v", "w", "x", "y", "z">>

Range(s) == {s[i] : i \in 1..Len(s)}

\* TLC evaluates a function constructor anew at each application: joining it
\* with the empty function or sequence enumerates it once
Table(f) == f @@ <<>>

Tuple(f) == f \o <<>>

DigitSet == Range(DigitChars)

IsDigit(c) == c \in DigitSet

DigitValues == Table([c \in DigitSet |-> (CHOOSE i \in 1..10 : DigitChars[i] = c) - 1])

DigitVal(c) == DigitValues[c]

UpperSet == Range(UpperChars)

LowerOf == Table([c \in UpperSet |-> LowerChars[CHOOSE i \in 1..26 : UpperChars[i] = c]])

\* the i flag of the regular expressions: case-insensitive comparison
ToLower(c) == IF c \in UpperSet THEN LowerOf[c] ELSE c

\* \w of the regular expressions
WordSet == Range(UpperChars) \cup Range(LowerChars) \cup Range(DigitChars) \cup {"_"}

IsWordChar(c) == c \in WordSet

\* white space removed by String.prototype.trim and skipped by parseFloat
IsSpace(c) == c \in {" ", "\t", "\n", "\r"}

Front(s) == IF s = <<>> THEN <<>> ELSE SubSeq(s, 1, Len(s) - 1)

Last(s) == s[Len(s)]

Drop(s, n) == IF n >= Len(s) THEN <<>> ELSE SubSeq(s, n + 1, Len(s))

Take(s, n) == IF n >= Len(s) THEN s ELSE SubSeq(s, 1, n)

LowerSeq(s) == Tuple([i \in 1..Len(s) |-> ToLower(s[i])])

-----------------------------------------------------------------------------
(* sanitizeInput *)

\* .replace(/<[^>]*>/g, ''): a '<' up to the first '>' after it is removed;
\* a string without '<' has no match
RECURSIVE StripTags(_)
StripTags(s) ==
    IF \A i \in 1..Len(s) : s[i] # "<" THEN s
    ELSE IF Head(s) = "<" /\ \E j \in 2..Len(s) : s[j] = ">"
         THEN LET j == CHOOSE j \in 2..Len(s) :
                          s[j] = ">" /\ \A k \in 2..(j - 1) : s[k] # ">"
              IN  StripTags(Drop(s, j))
         ELSE <<Head(s)>> \o StripTags(Tail(s))

\* .replace(/[<>]/g, '')
StripAngles(s) == SelectSeq(s, LAMBDA c : c \notin {"<", ">"})

JsProtocol == <<"j", "a", "v", "a", "s", "c", "r", "i", "p", "t", ":">>

\* .replace(/javascript:/gi, ''): one left-to-right pass over non-overlapping
\* matches; a string without ':' has no match
RECURSIVE StripJsProtocol(_)
StripJsProtocol(s) ==
    IF \A i \in 1..Len(s) : s[i] # ":" THEN s
    ELSE IF Len(s) >= Len(JsProtocol) /\ LowerSeq(Take(s, Len(JsProtocol))) = JsProtocol
         THEN StripJsProtocol(Drop(s, Len(JsProtocol)))
         ELSE <<Head(s)>> \o StripJsProtocol(Tail(s))

\* length of the longest run of word characters at the start of s
RECURSIVE WordRun(_)
WordRun(s) ==
    IF s # <<>> /\ IsWordChar(Head(s)) THEN 1 + WordRun(Tail(s)) ELSE 0

\* .replace(/on\w+=/gi, ''): "on", the greedy run of word characters, then "=";
\* a string without '=' has no match
RECURSIVE StripHandlers(_)
StripHandlers(s) ==
    IF \A i \in 1..Len(s) : s[i] # "=" THEN s
    ELSE LET r == WordRun(Drop(s, 2))
         IN  IF /\ Len(s) >= 4
                /\ ToLower(s[1]) = "o"
                /\ ToLower(s[2]) = "n"
                /\ r >= 1
                /\ Len(s) >= r + 3
                /\ s[r + 3] = "="
             THEN StripHandlers(Drop(s, r + 3))
             ELSE <<Head(s)>> \o StripHandlers(Tail(s))

RECURSIVE TrimStart(_)
TrimStart(s) ==
    IF s # <<>> /\ IsSpace(Head(s)) THEN TrimStart(Tail(s)) ELSE s

RECURSIVE TrimEnd(_)
TrimEnd(s) ==
    IF s # <<>> /\ IsSpace(Last(s)) THEN TrimEnd(Front(s)) ELSE s

Trim(s) == TrimEnd(TrimStart(s))

sanitizeInput(input) ==
    Trim(StripHandlers(StripJsProtocol(StripAngles(StripTags(input)))))

-----------------------------------------------------------------------------
(* Natural numbers as big-endian digit sequences without leading zeros *)

RECURSIVE StripLeadingZeros(_)
StripLeadingZeros(d) ==
    IF d # <<>> /\ Head(d) = 0 THEN StripLeadingZeros(Tail(d)) ELSE d

RECURSIVE NatAddC(_, _, _)
NatAddC(a, b, c) ==
    IF a = <<>> /\ b = <<>>
    THEN (IF c = 0 THEN <<>> ELSE <<c>>)
    ELSE LET x == IF a = <<>> THEN 0 ELSE Last(a)
             y == IF b = <<>> THEN 0 ELSE Last(b)
             t == x + y + c
         IN  Append(NatAddC(Front(a), Front(b), t \div 10), t % 10)

NatAdd(a, b) == StripLeadingZeros(NatAddC(a, b, 0))

\* a - b for a >= b
RECURSIVE NatSubB(_, _, _)
NatSubB(a, b, borrow) ==
    IF a = <<>> THEN <<>>
    ELSE LET y == IF b = <<>> THEN 0 ELSE Last(b)
             t == Last(a) - y - borrow
         IN  IF t < 0
             THEN Append(NatSubB(Front(a), Front(b), 1), t + 10)
             ELSE Append(NatSubB(Front(a), Front(b), 0), t)

NatSub(a, b) == StripLeadingZeros(NatSubB(a, b, 0))

RECURSIVE NatMulDigitC(_, _, _)
NatMulDigitC(a, k, c) ==
    IF a = <<>>
    THEN (IF c = 0 THEN <<>> ELSE <<c>>)
    ELSE LET t == Last(a) * k + c
         IN  Append(NatMulDigitC(Front(a), k, t \div 10), t % 10)

RECURSIVE NatMul(_, _)
NatMul(a, b) ==
    IF a = <<>> \/ b = <<>> THEN <<>>
    ELSE LET high == NatMul(a, Front(b))
         IN  NatAdd(IF high = <<>> THEN <<>> ELSE Append(high, 0),
                    StripLeadingZeros(NatMulDigitC(a, Last(b), 0)))

\* -1, 0, 1 as a < b, a = b, a > b
NatCmp(a, b) ==
    IF Len(a) # Len(b) THEN (IF Len(a) < Len(b) THEN -1 ELSE 1)
    ELSE IF a = b THEN 0
    ELSE LET i == CHOOSE i \in 1..Len(a) : a[i] # b[i] /\ \A j \in 1..(i - 1) : a[j] = b[j]
         IN  IF a[i] < b[i] THEN -1 ELSE 1

RECURSIVE Zeros(_)
Zeros(n) == IF n <= 0 THEN <<>> ELSE <<0>> \o Zeros(n - 1)

RECURSIVE NatOfInt(_)
NatOfInt(n) == IF n = 0 THEN <<>> ELSE Append(NatOfInt(n \div 10), n % 10)

\* value of a short digit sequence (an exponent)
RECURSIVE IntOfNat(_)
IntOfNat(d) == IF d = <<>> THEN 0 ELSE IntOfNat(Front(d)) * 10 + Last(d)

-----------------------------------------------------------------------------
(* JavaScript Numbers *)

NaN == [k |-> "nan", neg |-> FALSE, d |-> <<>>, e |-> 0]

Infinity(neg) == [k |-> "inf", neg |-> neg, d |-> <<>>, e |-> 0]

RECURSIVE TrailingZeros(_)
TrailingZeros(d) == IF d # <<>> /\ Last(d) = 0 THEN 1 + TrailingZeros(Front(d)) ELSE 0

FinTrimmed(neg, d1, z, e) ==
    [k |-> "fin", neg |-> neg, d |-> Take(d1, Len(d1) - z), e |-> e + z]

FinStripped(neg, d1, e) ==
    IF d1 = <<>>
    THEN [k |-> "fin", neg |-> FALSE, d |-> <<>>, e |-> 0]
    ELSE FinTrimmed(neg, d1, TrailingZeros(d1), e)

\* the finite number (-1)^neg * d * 10^e in normal form
Fin(neg, d, e) == FinStripped(neg, StripLeadingZeros(d), e)

Zero == Fin(FALSE, <<>>, 0)

Num(n) == IF n < 0 THEN Fin(TRUE, NatOfInt(-n), 0) ELSE Fin(FALSE, NatOfInt(n), 0)

IsNaN(x) == x.k = "nan"

isFinite(x) == x.k = "fin"

IsZero(x) == x.k = "fin" /\ x.d = <<>>

\* the digits of finite x at exponent e0 <= x.e
DigitsAt(x, e0) == IF x.d = <<>> THEN <<>> ELSE x.d \o Zeros(x.e - e0)

MinInt(a, b) == IF a < b THEN a ELSE b

SignedCmp(neg, c) == IF neg THEN -c ELSE c

FinCmpAt(x, y, e0) ==
    IF x.neg # y.neg THEN (IF x.neg THEN -1 ELSE 1)
    ELSE SignedCmp(x.neg, NatCmp(DigitsAt(x, e0), DigitsAt(y, e0)))

\* -1, 0, 1 for finite x, y
FinCmp(x, y) == FinCmpAt(x, y, MinInt(x.e, y.e))

\* x < y of JavaScript
Lt(x, y) ==
    IF IsNaN(x) \/ IsNaN(y) THEN FALSE
    ELSE IF x.k = "inf" THEN x.neg /\ ~(y.k = "inf" /\ y.neg)
    ELSE IF y.k = "inf" THEN ~y.neg
    ELSE FinCmp(x, y) = -1

Gt(x, y) == Lt(y, x)

Le(x, y) == ~IsNaN(x) /\ ~IsNaN(y) /\ ~Lt(y, x)

\* x * y of JavaScript
Mul(x, y) ==
    IF IsNaN(x) \/ IsNaN(y) THEN NaN
    ELSE IF x.k = "inf" \/ y.k = "inf"
         THEN (IF IsZero(x) \/ IsZero(y) THEN NaN ELSE Infinity(x.neg # y.neg))
    ELSE Fin(x.neg # y.neg, NatMul(x.d, y.d), x.e + y.e)

Neg(x) == IF x.k = "nan" \/ IsZero(x) THEN x ELSE [x EXCEPT !.neg = ~x.neg]

\* the sum of the finite numbers (-1)^xneg * a * 10^e0 and (-1)^yneg * b * 10^e0
AddAligned(xneg, a, yneg, b, e0) ==
    IF xneg = yneg THEN Fin(xneg, NatAdd(a, b), e0)
    ELSE IF NatCmp(a, b) >= 0 THEN Fin(xneg, NatSub(a, b), e0)
    ELSE Fin(yneg, NatSub(b, a), e0)

AddAt(x, y, e0) == AddAligned(x.neg, DigitsAt(x, e0), y.neg, DigitsAt(y, e0), e0)

\* x + y of JavaScript
Add(x, y) ==
    IF IsZero(y) THEN x
    ELSE IF IsZero(x) THEN y
    ELSE IF IsNaN(x) \/ IsNaN(y) THEN NaN
    ELSE IF x.k = "inf" THEN (IF y.k = "inf" /\ y.neg # x.neg THEN NaN ELSE x)
    ELSE IF y.k = "inf" THEN y
    ELSE AddAt(x, y, MinInt(x.e, y.e))

Sub(x, y) == Add(x, Neg(y))

\* x / 100 of JavaScript
DivBy100(x) == IF x.k = "fin" /\ x.d # <<>> THEN [x EXCEPT !.e = x.e - 2] ELSE x

\* x || 0 of JavaScript, for a Number x
OrZero(x) == IF IsNaN(x) THEN Zero ELSE x

\* Number.MAX_SAFE_INTEGER = 2^53 - 1 = 9007199254740991
MAX_SAFE_INTEGER == Fin(FALSE, <<9, 0, 0, 7, 1, 9, 9, 2, 5, 4, 7, 4, 0, 9, 9, 1>>, 0)

-----------------------------------------------------------------------------
(* parseFloat and Number.prototype.toFixed(2) *)

RECURSIVE DigitRun(_)
DigitRun(s) == IF s # <<>> /\ IsDigit(Head(s)) THEN 1 + DigitRun(Tail(s)) ELSE 0

DigitsOf(s) == Tuple([i \in 1..Len(s) |-> DigitVal(s[i])])

InfinityWord == <<"I", "n", "f", "i", "n", "i", "t", "y">>

\* the digits of an ExponentPart, 0 when there is none
ExpDigits(s) == IntOfNat(DigitsOf(Take(s, DigitRun(s))))

SignedExp(s) ==
    IF s # <<>> /\ Head(s) \in {"+", "-"}
    THEN (IF Head(s) = "-" THEN -1 ELSE 1) * ExpDigits(Tail(s))
    ELSE ExpDigits(s)

\* the exponent written at the start of rest, 0 when none is
Exponent(rest) ==
    IF rest # <<>> /\ ToLower(Head(rest)) = "e" THEN SignedExp(Tail(rest)) ELSE 0

ParseExp(neg, intPart, fracPart, rest) ==
    IF intPart = <<>> /\ fracPart = <<>> THEN NaN
    ELSE Fin(neg, DigitsOf(intPart \o fracPart), Exponent(rest) - Len(fracPart))

ParseFracDigits(neg, intPart, afterDot, nf) ==
    ParseExp(neg, intPart, Take(afterDot, nf), Drop(afterDot, nf))

ParseFrac(neg, intPart, rest) ==
    IF rest # <<>> /\ Head(rest) = "."
    THEN ParseFracDigits(neg, intPart, Tail(rest), DigitRun(Tail(rest)))
    ELSE ParseExp(neg, intPart, <<>>, rest)

ParseInt(neg, u, ni) == ParseFrac(neg, Take(u, ni), Drop(u, ni))

ParseUnsigned(neg, u) ==
    IF Take(u, Len(InfinityWord)) = InfinityWord THEN Infinity(neg)
    ELSE ParseInt(neg, u, DigitRun(u))

ParseSigned(t) ==
    IF t # <<>> /\ Head(t) \in {"+", "-"}
    THEN ParseUnsigned(Head(t) = "-", Tail(t))
    ELSE ParseUnsigned(FALSE, t)

\* parseFloat: leading white space skipped, then the longest prefix that is a
\* StrDecimalLiteral: sign, "Infinity" or digits [. digits] [e sign digits].
\* (Exponents are short: the overflow of 1e309 to Infinity is outside the inputs.)
parseFloat(str) == ParseSigned(TrimStart(str))

\* the integer nearest to |x| * 100 for finite x, the larger one on a tie
RoundDropped(d, k) ==
    IF (IF k > Len(d) THEN 0 ELSE d[Len(d) - k + 1]) >= 5
    THEN NatAdd(IF k >= Len(d) THEN <<>> ELSE Take(d, Len(d) - k), <<1>>)
    ELSE (IF k >= Len(d) THEN <<>> ELSE Take(d, Len(d) - k))

RoundedCents(x) ==
    IF x.e >= -2 THEN DigitsAt(x, -2) ELSE RoundDropped(x.d, (-2) - x.e)

CentsChars(neg, chars) ==
    (IF neg THEN <<"-">> ELSE <<>>)
        \o Take(chars, Len(chars) - 2) \o <<".">> \o Drop(chars, Len(chars) - 2)

FormatPadded(neg, padded) ==
    CentsChars(neg, Tuple([i \in 1..Len(padded) |-> DigitChars[padded[i] + 1]]))

FormatCents(neg, n) == FormatPadded(neg, Zeros(3 - Len(n)) \o n)

\* x.toFixed(2): the integer n nearest to x * 100 (the larger one on a tie),
\* written with two decimals.  (Below 1e21, which every total of the form is.)
ToFixed2(x) ==
    IF x.k = "nan" THEN <<"N", "a", "N">>
    ELSE IF x.k = "inf" THEN (IF x.neg THEN <<"-">> ELSE <<>>) \o InfinityWord
    ELSE FormatCents(x.neg, RoundedCents(x))

-----------------------------------------------------------------------------
(* The strings the specifications type into the fields *)

S_2 == <<"2">>
S_3 == <<"3">>
S_5 == <<"5">>
S_10 == <<"1", "0">>
S_1e4 == <<"1", "e", "4">>
S_2e4 == <<"2", "e", "4">>
S_1e6 == <<"1", "e", "6">>
S_minus1 == <<"-", "1">>
S_Banner == <<"B", "a", "n", "n", "e", "r">>

FormValues(name) ==
    CASE name = "item"      -> {<<>>, S_Banner}
      [] name = "width"     -> {<<>>, S_1e4, S_2e4}
      [] name = "length"    -> {<<>>, S_2, S_1e4}
      [] name = "quantity"  -> {<<>>, S_1e4}
      [] name = "unitPrice" -> {<<>>, S_1e6}

DiscountValues == {<<>>, S_10}

CapValues(name) ==
    CASE name = "item"      -> {<<>>}
      [] name = "width"     -> {<<>>, S_1e4}
      [] name = "length"    -> {<<>>}
      [] name = "quantity"  -> {<<>>, S_3}
      [] name = "unitPrice" -> {<<>>, S_5}

\* every string typed into field name
S_2half == <<"2", ".", "5">>
S_quarter == <<"0", ".", "2", "5">>
S_0 == <<"0">>
S_50 == <<"5", "0">>
S_100 == <<"1", "0", "0">>
S_150 == <<"1", "5", "0">>
S_minus10 == <<"-", "1", "0">>

PayValues(name) ==
    CASE name = "item"      -> {<<>>}
      [] name = "width"     -> {<<>>}
      [] name = "length"    -> {<<>>}
      [] name = "quantity"  -> {<<>>, S_2half}
      [] name = "unitPrice" -> {<<>>, S_quarter}

PayDiscounts == {<<>>, S_0, S_10, S_50, S_100, S_150, S_minus10}

FieldInputs(name) == FormValues(name) \cup CapValues(name) \cup PayValues(name)

NumericInputs == FieldInputs("width") \cup FieldInputs("length")
                     \cup FieldInputs("quantity") \cup FieldInputs("unitPrice")

-----------------------------------------------------------------------------
(* SECURITY_CONFIG *)

MAX_ITEMS_PER_SALE == 50
MAX_QUANTITY_PER_ITEM == 10000
MAX_PRICE_PER_ITEM == 1000000
MAX_DISCOUNT_PERCENTAGE == 100
MAX_ITEM_DIMENSIONS == 10000

-----------------------------------------------------------------------------
(* validateNumericInput, calculateRowTotal, updateAllTotals *)

\* parseFloat(sanitizeInput(String(value))) for a string value
ParseSanitized(value) == parseFloat(sanitizeInput(value))

\* ParseSanitized tabulated once over the strings typed into the form
ParsedInput == Table([s \in NumericInputs |-> ParseSanitized(s)])

\* CheckBounds with the upper bound excluded: numericValue >= max is out of range
CheckBounds_ExclusiveMax(numericValue, min, max) ==
    IF IsNaN(numericValue)
    THEN [isValid |-> FALSE, sanitizedValue |-> Zero]
    ELSE IF Lt(numericValue, min) \/ ~Lt(numericValue, max)
    THEN [isValid |-> FALSE, sanitizedValue |-> numericValue]
    ELSE [isValid |-> TRUE, sanitizedValue |-> numericValue]

\* the result of validateNumericInput once the sanitized value is parsed
CheckBounds(numericValue, min, max) ==
    IF IsNaN(numericValue)
    THEN [isValid |-> FALSE, sanitizedValue |-> Zero]
    ELSE IF Lt(numericValue, min) \/ Gt(numericValue, max)
    THEN [isValid |-> FALSE, sanitizedValue |-> numericValue]
    ELSE [isValid |-> TRUE, sanitizedValue |-> numericValue]

\* value is the string form of the argument; min and max are Numbers
validateNumericInput(value, min, max) ==
    CheckBounds(IF value \in DOMAIN ParsedInput THEN ParsedInput[value] ELSE ParseSanitized(value),
                min, max)

MaxDimension == Num(MAX_ITEM_DIMENSIONS)
MaxQuantity == Num(MAX_QUANTITY_PER_ITEM)
MaxPrice == Num(MAX_PRICE_PER_ITEM)

\* validation.isValid && validation.sanitizedValue > 0
Has(validation) == validation.isValid /\ Gt(validation.sanitizedValue, Zero)

\* GuardOverflow without the check: the computed total whatever its size
GuardOverflow_Unguarded(total) == total

\* the overflow check on a computed total
GuardOverflow(total) ==
    IF ~isFinite(total) \/ Gt(total, MAX_SAFE_INTEGER) THEN Zero ELSE total

\* BranchTotal without the flat-priced branch
BranchTotal_AreaOnly(hasWidth, hasLength, hasQuantity, hasUnitPrice, widthVal, lengthVal, quantityVal, unitPriceVal) ==
    IF hasWidth /\ hasLength /\ hasQuantity /\ hasUnitPrice
    THEN (IF ~isFinite(Mul(Mul(Mul(widthVal, lengthVal), quantityVal), unitPriceVal))
             \/ Gt(Mul(Mul(Mul(widthVal, lengthVal), quantityVal), unitPriceVal),
                   MAX_SAFE_INTEGER)
          THEN Zero
          ELSE Mul(Mul(Mul(widthVal, lengthVal), quantityVal), unitPriceVal))
    ELSE Zero

\* the branches of calculateRowTotal on the four flags and the four values
BranchTotal(hasWidth, hasLength, hasQuantity, hasUnitPrice, widthVal, lengthVal, quantityVal, unitPriceVal) ==
    IF hasWidth /\ hasLength /\ hasQuantity /\ hasUnitPrice
    THEN GuardOverflow(Mul(Mul(Mul(widthVal, lengthVal), quantityVal), unitPriceVal))
    ELSE IF ~hasWidth /\ ~hasLength /\ hasQuantity /\ hasUnitPrice
    THEN GuardOverflow(Mul(quantityVal, unitPriceVal))
    ELSE Zero

TotalOfValidations(widthValidation, lengthValidation, quantityValidation, priceValidation) ==
    BranchTotal(Has(widthValidation), Has(lengthValidation),
                Has(quantityValidation), Has(priceValidation),
                widthValidation.sanitizedValue, lengthValidation.sanitizedValue,
                quantityValidation.sanitizedValue, priceValidation.sanitizedValue)

calculateRowTotal(width, length, quantity, unitPrice) ==
    TotalOfValidations(validateNumericInput(width, Zero, MaxDimension),
                       validateNumericInput(length, Zero, MaxDimension),
                       validateNumericInput(quantity, Zero, MaxQuantity),
                       validateNumericInput(unitPrice, Zero, MaxPrice))

RowInputs == FieldInputs("width") \X FieldInputs("length")
                 \X FieldInputs("quantity") \X FieldInputs("unitPrice")

\* calculateRowTotal tabulated once over the rows that can be typed into the form
RowTotalOfInputs == Table([k \in RowInputs |-> calculateRowTotal(k[1], k[2], k[3], k[4])])

\* calculateRowTotal(width, length, quantity, unitPrice) on the fields of a row
RowTotal(row) ==
    IF <<row.width, row.length, row.quantity, row.unitPrice>> \in RowInputs
    THEN RowTotalOfInputs[<<row.width, row.length, row.quantity, row.unitPrice>>]
    ELSE calculateRowTotal(row.width, row.length, row.quantity, row.unitPrice)

\* supTotal += total, over a sequence of row totals
RECURSIVE SumTotals(_)
SumTotals(ts) ==
    IF ts = <<>> THEN Zero ELSE Add(SumTotals(Front(ts)), Last(ts))

\* parseFloat tabulated once over the strings typed into #discount
ParsedDiscount == Table([s \in DiscountValues \cup PayDiscounts |-> parseFloat(s)])

\* FinalTotal with the discount taken off the rounded supTotal
FinalTotal_OfRoundedSum(supTotal, discount) ==
    IF Gt(discount, Zero)
    THEN Mul(parseFloat(ToFixed2(supTotal)), Sub(Num(1), DivBy100(discount)))
    ELSE supTotal

\* FinalTotal with the discount added: supTotal * (1 + discount / 100)
FinalTotal_Surcharge(supTotal, discount) ==
    IF Gt(discount, Zero)
    THEN Mul(supTotal, Add(Num(1), DivBy100(discount)))
    ELSE supTotal

\* finalTotal of updateAllTotals
FinalTotal(supTotal, discount) ==
    IF Gt(discount, Zero)
    THEN Mul(supTotal, Sub(Num(1), DivBy100(discount)))
    ELSE supTotal

\* total > 0 ? total.toFixed(2) : ''
TotalText(total) == IF Gt(total, Zero) THEN ToFixed2(total) ELSE <<>>

\* TotalText tabulated once over the rows that can be typed into the form
TotalTextOfInputs == Table([k \in RowInputs |-> TotalText(RowTotalOfInputs[k])])

ItemTotalText(row, total) ==
    IF <<row.width, row.length, row.quantity, row.unitPrice>> \in RowInputs
    THEN TotalTextOfInputs[<<row.width, row.length, row.quantity, row.unitPrice>>]
    ELSE TotalText(total)

WriteTotals(rs, totals, supTotal, discount) ==
    [rows     |-> Tuple([i \in 1..Len(rs) |->
                      [rs[i] EXCEPT !.itemTotal = ItemTotalText(rs[i], totals[i])]]),
     supTotal |-> ToFixed2(supTotal),
     total    |-> ToFixed2(FinalTotal(supTotal, discount))]

SumAndWrite(rs, totals, discount) == WriteTotals(rs, totals, SumTotals(totals), discount)

\* the DOM after updateAllTotals ran on rows rs with #discount holding disc
updateAllTotals(rs, disc) ==
    SumAndWrite(rs, Tuple([i \in 1..Len(rs) |-> RowTotal(rs[i])]),
                OrZero(IF disc \in DOMAIN ParsedDiscount THEN ParsedDiscount[disc]
                       ELSE parseFloat(disc)))

-----------------------------------------------------------------------------
(* The sales form *)

BlankRow == [item |-> <<>>, width |-> <<>>, length |-> <<>>, quantity |-> <<>>,
             unitPrice |-> <<>>, itemTotal |-> <<>>]

\* the names the input listener of #itemsTbody recomputes for
NumericNames == {"width", "length", "quantity", "unitPrice"}

FieldNames == NumericNames \cup {"item"}

NoEffect == [alert |-> "", toast |-> "", sale |-> <<>>, validatedRows |-> 0,
             validationErrors |-> <<>>, at |-> 0]

NoCall == [fn |-> "none", args |-> <<>>]

\* no sales tracking page is open
\* what the handler of the tracking page that resumed last did: nothing
NoDone == [fn |-> "", id |-> "", answer |-> "", wrote |-> ""]

NoTrack == [page |-> "", role |-> "", sales |-> <<>>, db |-> {}, modal |-> "",
            confirmed |-> FALSE, toast |-> "",
            promise |-> FALSE, loads |-> 0, inflight |-> <<>>, done |-> NoDone]

\* login.html, the server and expenses.html before anything happened on them
NoLogin == [loginAttempts |-> 0, lastAttemptTime |-> 0, timers |-> {}, now |-> 0,
            lockoutBegan |-> -1, last |-> "", called |-> FALSE, loggedIn |-> FALSE]

NoServer == [csrfTokens |-> <<>>, issued |-> 0, now |-> 0, accepted |-> {}, token |-> 0,
             status |-> 0]

NoExpense == [description |-> <<>>, amount |-> <<>>, category |-> <<>>, date |-> 0, today |-> 0,
              lastExpenseSubmissionTime |-> 0, toast |-> "", created |-> <<>>, saved |-> FALSE]

other == <<login, server, expense>>

NoRet == [done |-> FALSE, isValid |-> FALSE, num |-> Zero, str |-> <<>>, value |-> ""]

\* the milliseconds between two submissions that the rate limiter lets pass
RATE_LIMIT_MS == 2000

\* the flags the submit handler derives for one row
RowFlags(row) ==
    [hasWidth     |-> Has(validateNumericInput(row.width, Zero, MaxDimension)),
     hasLength    |-> Has(validateNumericInput(row.length, Zero, MaxDimension)),
     hasQuantity  |-> Has(validateNumericInput(row.quantity, Zero, MaxQuantity)),
     hasUnitPrice |-> Has(validateNumericInput(row.unitPrice, Zero, MaxPrice))]

\* RowFlags tabulated once over the rows that can be typed into the form
RowFlagsOfInputs ==
    Table([k \in RowInputs |->
        RowFlags([BlankRow EXCEPT !.width = k[1], !.length = k[2],
                                  !.quantity = k[3], !.unitPrice = k[4]])])

FlagsOf(row) ==
    IF <<row.width, row.length, row.quantity, row.unitPrice>> \in RowInputs
    THEN RowFlagsOfInputs[<<row.width, row.length, row.quantity, row.unitPrice>>]
    ELSE RowFlags(row)

\* (hasWidth && !hasLength) || (!hasWidth && hasLength)
IsOneDimension(f) == f.hasWidth # f.hasLength

OneDimension(row) == IsOneDimension(FlagsOf(row))

\* !hasQuantity || !hasUnitPrice
IsMissingAmount(f) == ~f.hasQuantity \/ ~f.hasUnitPrice

\* the row sets hasError
IsRowError(f) == IsOneDimension(f) \/ IsMissingAmount(f)

RowHasError(row) == IsRowError(FlagsOf(row))

\* the numbers of the rows validationErrors got a message for, in row order
RECURSIVE ValidationErrors(_)
ValidationErrors(rs) ==
    IF rs = <<>> THEN <<>>
    ELSE IF OneDimension(Last(rs))
         THEN Append(ValidationErrors(Front(rs)), Len(rs))
         ELSE ValidationErrors(Front(rs))

\* sanitizeInput tabulated once over the item names typed into the form
SanitizedItem == Table([s \in FieldInputs("item") |-> sanitizeInput(s)])

\* the object pushed for one row: the item name sanitized, the other fields as typed
ItemOf(row) ==
    [row EXCEPT !.item = IF row.item \in DOMAIN SanitizedItem
                         THEN SanitizedItem[row.item]
                         ELSE sanitizeInput(row.item)]

\* if (item || quantity) items.push(...)
Items(rs) ==
    SelectSeq(Tuple([i \in 1..Len(rs) |-> ItemOf(rs[i])]),
              LAMBDA it : it.item # <<>> \/ it.quantity # <<>>)

SaleDb(rs, disc, sup, tot) ==
    [items    |-> Items(rs),
     discount |-> OrZero(parseFloat(disc)),
     suptotal |-> OrZero(parseFloat(sup)),
     total    |-> OrZero(parseFloat(tot)),
     status   |-> "Pending"]

\* window.lastSubmissionTime && (Date.now() - window.lastSubmissionTime) < 2000
RateLimited(now) == lastSubmissionTime # 0 /\ (now - lastSubmissionTime) < RATE_LIMIT_MS

\* Validated without the hasError check
Validated_IgnoringHasError(checked, items, hasError, saleDb, client, result) ==
    IF Len(items) = 0
    THEN [effect |-> [checked EXCEPT !.toast = "Validation Error"], location |-> location]
    ELSE IF ~client
    THEN [effect |-> [checked EXCEPT !.toast = "Configuration Error"], location |-> location]
    ELSE IF result = "ok"
    THEN [effect |-> [checked EXCEPT !.sale = <<saleDb>>], location |-> "quotation"]
    ELSE [effect |-> [checked EXCEPT !.sale = <<saleDb>>, !.toast = "Save Failed"],
          location |-> location]

\* Validated without the items.length === 0 check
Validated_AllowingNoItems(checked, items, hasError, saleDb, client, result) ==
    IF hasError
    THEN [effect |-> [checked EXCEPT !.toast = "Validation Error"], location |-> location]
    ELSE IF ~client
    THEN [effect |-> [checked EXCEPT !.toast = "Configuration Error"], location |-> location]
    ELSE IF result = "ok"
    THEN [effect |-> [checked EXCEPT !.sale = <<saleDb>>], location |-> "quotation"]
    ELSE [effect |-> [checked EXCEPT !.sale = <<saleDb>>, !.toast = "Save Failed"],
          location |-> location]

\* the end of the submit handler, once the rows are validated
Validated(checked, items, hasError, saleDb, client, result) ==
    IF Len(items) = 0
    THEN [effect |-> [checked EXCEPT !.toast = "Validation Error"], location |-> location]
    ELSE IF hasError
    THEN [effect |-> [checked EXCEPT !.toast = "Validation Error"], location |-> location]
    ELSE IF ~client
    THEN [effect |-> [checked EXCEPT !.toast = "Configuration Error"], location |-> location]
    ELSE IF result = "ok"
    THEN [effect |-> [checked EXCEPT !.sale = <<saleDb>>], location |-> "quotation"]
    ELSE [effect |-> [checked EXCEPT !.sale = <<saleDb>>, !.toast = "Save Failed"],
          location |-> location]

\* SubmitOutcome with rows.length >= MAX_ITEMS_PER_SALE as the capacity check
SubmitOutcome_CapacityAtLimit(now, client, result) ==
    IF RateLimited(now)
    THEN [effect |-> [NoEffect EXCEPT !.alert = "wait"], location |-> location]
    ELSE IF Len(rows) >= MAX_ITEMS_PER_SALE
    THEN [effect |-> [NoEffect EXCEPT !.alert = "capacity"], location |-> location]
    ELSE Validated([NoEffect EXCEPT !.validatedRows = Len(rows),
                                    !.validationErrors = ValidationErrors(rows)],
                   Items(rows),
                   \E i \in 1..Len(rows) : RowHasError(rows[i]),
                   SaleDb(rows, discountField, supTotalField, totalField),
                   client, result)

\* The submit handler, run at clock reading now, with window.apiClient present
\* (client) or not; result is what createSale does once it is called: "ok", "error"
\* (a result carrying an error) or "throws".  The continuation after the
\* await touches nothing but window.location and the toast.
SubmitOutcome(now, client, result) ==
    IF RateLimited(now)
    THEN [effect |-> [NoEffect EXCEPT !.alert = "wait"], location |-> location]
    ELSE IF Len(rows) > MAX_ITEMS_PER_SALE
    THEN [effect |-> [NoEffect EXCEPT !.alert = "capacity"], location |-> location]
    ELSE Validated([NoEffect EXCEPT !.validatedRows = Len(rows),
                                    !.validationErrors = ValidationErrors(rows)],
                   Items(rows),
                   \E i \in 1..Len(rows) : RowHasError(rows[i]),
                   SaleDb(rows, discountField, supTotalField, totalField),
                   client, result)

CreateSaleResults == {"ok", "error", "throws"}

\* readings of Date.now(): one, and two that are less than RATE_LIMIT_MS apart
OneReading == {1000}

ClockReadings == {1000, 2500}

\* the page is still the sales form: its listeners run
OnPage == location = "sales" /\ call = NoCall

Recompute(rs, disc) ==
    LET dom == updateAllTotals(rs, disc)
    IN  /\ rows' = dom.rows
        /\ discountField' = disc
        /\ supTotalField' = dom.supTotal
        /\ totalField' = dom.total

\* the add-item button of sales.html appends an empty <tr>
AddRow(maxRows) ==
    /\ OnPage
    /\ Len(rows) < maxRows
    /\ rows' = Append(rows, BlankRow)
    /\ effect' = NoEffect
    /\ UNCHANGED <<discountField, supTotalField, totalField, lastSubmissionTime,
                   location, call, ret, track, other>>

\* an input event on a field of row i
InputField(i, name, value) ==
    /\ OnPage
    /\ i \in 1..Len(rows)
    /\ IF name \in NumericNames
       THEN Recompute([rows EXCEPT ![i][name] = value], discountField)
       ELSE /\ rows' = [rows EXCEPT ![i][name] = value]
            /\ UNCHANGED <<discountField, supTotalField, totalField>>
    /\ effect' = NoEffect
    /\ UNCHANGED <<lastSubmissionTime, location, call, ret, track, other>>

\* an input event on #discount
InputDiscount(value) ==
    /\ OnPage
    /\ Recompute(rows, value)
    /\ effect' = NoEffect
    /\ UNCHANGED <<lastSubmissionTime, location, call, ret, track, other>>

\* RemoveRow without the updateAllTotals() after the removal
RemoveRow_WithoutUpdate(i) ==
    /\ OnPage
    /\ i \in 1..Len(rows)
    /\ rows' = SubSeq(rows, 1, i - 1) \o SubSeq(rows, i + 1, Len(rows))
    /\ effect' = NoEffect
    /\ UNCHANGED <<discountField, supTotalField, totalField, lastSubmissionTime,
                   location, call, ret, track, other>>

\* a click on the remove button of row i
RemoveRow(i) ==
    /\ OnPage
    /\ i \in 1..Len(rows)
    /\ Recompute(SubSeq(rows, 1, i - 1) \o SubSeq(rows, i + 1, Len(rows)), discountField)
    /\ effect' = NoEffect
    /\ UNCHANGED <<lastSubmissionTime, location, call, ret, track, other>>

\* the submit event of #salesForm
Submit(now, client, result) ==
    /\ OnPage
    /\ LET outcome == SubmitOutcome(now, client, result)
       IN  /\ effect' = [outcome.effect EXCEPT !.at = now]
           /\ location' = outcome.location
    /\ UNCHANGED <<rows, discountField, supTotalField, totalField, lastSubmissionTime,
                   call, ret, track, other>>

-----------------------------------------------------------------------------
(* Specification of the form: few rows, every kind of row content *)

MaxRows == 2
MaxEditRow == 1

\* sales.html holds one empty row; sales.js ends its set-up with updateAllTotals()
Init ==
    /\ rows = updateAllTotals(<<BlankRow>>, <<>>).rows
    /\ discountField = <<>>
    /\ supTotalField = updateAllTotals(<<BlankRow>>, <<>>).supTotal
    /\ totalField = updateAllTotals(<<BlankRow>>, <<>>).total
    /\ lastSubmissionTime = 0
    /\ login = NoLogin
    /\ server = NoServer
    /\ expense = NoExpense
    /\ location = "sales"
    /\ effect = NoEffect
    /\ call = NoCall
    /\ ret = NoRet
    /\ track = NoTrack

Next ==
    \/ AddRow(MaxRows)
    \/ \E i \in 1..MaxEditRow, name \in FieldNames :
           \E value \in FormValues(name) : InputField(i, name, value)
    \/ \E value \in DiscountValues : InputDiscount(value)
    \/ \E i \in 1..MaxRows : RemoveRow(i)
    \/ \E now \in OneReading, client \in BOOLEAN, result \in CreateSaleResults :
           Submit(now, client, result)

Spec == Init /\ [][Next]_vars

-----------------------------------------------------------------------------
(* Specification of the form at its capacity: many rows, plain row content. *)
(* The rows past MaxEditRow are blank and alike, so that removing one of    *)
(* them is removing row MaxEditRow + 1.                                     *)

CapRows == 51

NextCap ==
    \/ AddRow(CapRows)
    \/ \E i \in 1..MaxEditRow, name \in FieldNames :
           \E value \in CapValues(name) : InputField(i, name, value)
    \/ \E i \in 1..(MaxEditRow + 1) : RemoveRow(i)
    \/ \E now \in OneReading, client \in BOOLEAN, result \in CreateSaleResults :
           Submit(now, client, result)

SpecCap == Init /\ [][NextCap]_vars

-----------------------------------------------------------------------------
(* Specification of the form's payload: every row edited, fractional        *)
(* amounts, discounts of every kind, submissions at two clock readings      *)

NextPay ==
    \/ AddRow(MaxRows)
    \/ \E i \in 1..MaxRows, name \in FieldNames :
           \E value \in PayValues(name) : InputField(i, name, value)
    \/ \E value \in PayDiscounts : InputDiscount(value)
    \/ \E i \in 1..MaxRows : RemoveRow(i)
    \/ \E now \in ClockReadings, client \in BOOLEAN, result \in CreateSaleResults :
           Submit(now, client, result)

SpecPay == Init /\ [][NextPay]_vars

-----------------------------------------------------------------------------
(* Specification of the pure functions: one call on arguments drawn from     *)
(* bounded sets                                                              *)

S_blank == <<>>
S_half == <<"0", ".", "5">>
S_9007 == <<"9", "0", "0", "7">>
S_9008 == <<"9", "0", "0", "8">>
S_10000 == <<"1", "0", "0", "0", "0">>
S_10001 == <<"1", "0", "0", "0", "1">>
S_2e6 == <<"2", "e", "6">>
S_abc == <<"a", "b", "c">>
S_tag7 == <<"<", "b", ">", "7">>
S_5x == <<" ", "5", "x">>
S_Infinity == <<"I", "n", "f", "i", "n", "i", "t", "y">>

CalcDimensions == {S_blank, S_0, S_half, S_3, S_1e4, S_2e4, S_minus1}

CalcQuantities == {S_blank, S_0, S_2half, S_1e4, S_10001}

CalcPrices == {S_blank, S_0, S_quarter, S_9007, S_9008, S_1e6, S_2e6}

CalcCalls ==
    {[fn |-> "calculateRowTotal", args |-> <<w, l, q, p>>] :
        w \in CalcDimensions, l \in CalcDimensions, q \in CalcQuantities, p \in CalcPrices}

ValidateValues == {S_blank, S_abc, S_0, S_minus1, S_half, S_3, S_1e4, S_10000, S_10001,
                   S_1e6, S_2e6, S_tag7, S_5x, S_Infinity}

ValidateBounds == {<<Zero, MaxDimension>>, <<Zero, MaxPrice>>, <<Num(3), MaxQuantity>>}

ValidateCalls ==
    {[fn |-> "validateNumericInput", args |-> <<v, b[1], b[2]>>] :
        v \in ValidateValues, b \in ValidateBounds}

\* parseInt(str) with no radix: leading white space and a sign skipped, then
\* hexadecimal digits after 0x or 0X, decimal digits otherwise; NaN without a digit
HexDigits == <<"0", "1", "2", "3", "4", "5", "6", "7", "8", "9", "a", "b", "c", "d", "e", "f">>

\* the values of the hexadecimal digits s starts with
RECURSIVE HexRun(_)
HexRun(s) ==
    IF s # <<>> /\ ToLower(Head(s)) \in Range(HexDigits)
    THEN <<(CHOOSE i \in 1..16 : HexDigits[i] = ToLower(Head(s))) - 1>> \o HexRun(Tail(s))
    ELSE <<>>

\* the number with the hexadecimal digit values h, as decimal digits
RECURSIVE HexNat(_)
HexNat(h) ==
    IF h = <<>> THEN <<>>
    ELSE NatAdd(NatMul(HexNat(Front(h)), <<1, 6>>), NatOfInt(Last(h)))

ParseIntUnsigned(neg, u) ==
    IF Len(u) >= 2 /\ u[1] = "0" /\ ToLower(u[2]) = "x"
    THEN (IF HexRun(Drop(u, 2)) = <<>> THEN NaN ELSE Fin(neg, HexNat(HexRun(Drop(u, 2))), 0))
    ELSE IF DigitRun(u) = 0 THEN NaN
    ELSE Fin(neg, DigitsOf(Take(u, DigitRun(u))), 0)

ParseIntSigned(t) ==
    IF t # <<>> /\ Head(t) \in {"+", "-"}
    THEN ParseIntUnsigned(Head(t) = "-", Tail(t))
    ELSE ParseIntUnsigned(FALSE, t)

parseInt(str) == ParseIntSigned(TrimStart(str))

\* calculateTotal of sales-track.js once its five fields are parsed
TotalOfParsed(width, length, quantity, unitPrice, discount) ==
    IF Gt(width, Zero) /\ Gt(length, Zero) /\ Gt(quantity, Zero) /\ Gt(unitPrice, Zero)
    THEN ToFixed2(IF Gt(discount, Zero)
                  THEN Mul(Mul(Mul(Mul(width, length), quantity), unitPrice),
                           Sub(Num(1), DivBy100(discount)))
                  ELSE Mul(Mul(Mul(width, length), quantity), unitPrice))
    ELSE <<>>

\* calculateTotal({ width, length, quantity, unitPrice, discount }) on strings
calculateTotal(width, length, quantity, unitPrice, discount) ==
    TotalOfParsed(parseFloat(width), parseFloat(length), parseInt(quantity),
                  parseFloat(unitPrice), OrZero(parseFloat(discount)))

S_0x10 == <<"0", "x", "1", "0">>

TotalCalls ==
    {[fn |-> "calculateTotal", args |-> <<w, l, q, p, d>>] :
        w \in {<<>>, S_half, S_3, S_2e4}, l \in {<<>>, S_half, S_3},
        q \in {<<>>, S_2half, S_3, S_1e4, S_0x10}, p \in {<<>>, S_quarter, S_5},
        d \in {<<>>, S_0}}

InitCalc ==
    /\ rows = updateAllTotals(<<BlankRow>>, <<>>).rows
    /\ discountField = <<>>
    /\ supTotalField = updateAllTotals(<<BlankRow>>, <<>>).supTotal
    /\ totalField = updateAllTotals(<<BlankRow>>, <<>>).total
    /\ lastSubmissionTime = 0
    /\ login = NoLogin
    /\ server = NoServer
    /\ expense = NoExpense
    /\ location = "sales"
    /\ effect = NoEffect
    /\ call \in CalcCalls \cup ValidateCalls \cup TotalCalls
    /\ ret = NoRet
    /\ track = NoTrack

CallCalculateRowTotal ==
    /\ call.fn = "calculateRowTotal"
    /\ ~ret.done
    /\ ret' = [NoRet EXCEPT !.done = TRUE,
                            !.num = calculateRowTotal(call.args[1], call.args[2],
                                                      call.args[3], call.args[4])]
    /\ UNCHANGED <<rows, discountField, supTotalField, totalField, lastSubmissionTime,
                   location, effect, call, track, other>>

CallValidateNumericInput ==
    /\ call.fn = "validateNumericInput"
    /\ ~ret.done
    /\ LET r == validateNumericInput(call.args[1], call.args[2], call.args[3])
       IN  ret' = [NoRet EXCEPT !.done = TRUE, !.isValid = r.isValid,
                                !.num = r.sanitizedValue]
    /\ UNCHANGED <<rows, discountField, supTotalField, totalField, lastSubmissionTime,
                   location, effect, call, track, other>>

CallCalculateTotal ==
    /\ call.fn = "calculateTotal"
    /\ ~ret.done
    /\ ret' = [NoRet EXCEPT !.done = TRUE,
                            !.str = calculateTotal(call.args[1], call.args[2], call.args[3],
                                                   call.args[4], call.args[5])]
    /\ UNCHANGED <<rows, discountField, supTotalField, totalField, lastSubmissionTime,
                   location, effect, call, track, other>>

NextCalc == CallCalculateRowTotal \/ CallValidateNumericInput \/ CallCalculateTotal

SpecCalc == InitCalc /\ [][NextCalc]_vars

-----------------------------------------------------------------------------
(* Specification of sanitizeInput: a call on a string made of a few pieces, *)
(* and a call on the result of that call                                     *)

SanitizePieces ==
    {<<"<">>, <<">">>, <<"=">>, <<":">>, <<" ">>, <<"o", "n">>, <<"a">>,
     <<"j", "a", "v", "a">>, <<"s", "c", "r", "i", "p", "t", ":">>,
     <<"j", "a", "v", "a", "s", "c", "r", "i", "p", "t", ":">>}

MaxPieces == 3

\* the strings made of at most n pieces
RECURSIVE PieceStrings(_)
PieceStrings(n) ==
    IF n = 0 THEN {<<>>}
    ELSE PieceStrings(n - 1) \cup {t \o u : t \in SanitizePieces, u \in PieceStrings(n - 1)}

InitSan ==
    /\ rows = updateAllTotals(<<BlankRow>>, <<>>).rows
    /\ discountField = <<>>
    /\ supTotalField = updateAllTotals(<<BlankRow>>, <<>>).supTotal
    /\ totalField = updateAllTotals(<<BlankRow>>, <<>>).total
    /\ lastSubmissionTime = 0
    /\ login = NoLogin
    /\ server = NoServer
    /\ expense = NoExpense
    /\ location = "sales"
    /\ effect = NoEffect
    /\ call \in {[fn |-> "sanitizeInput", args |-> <<x>>] : x \in PieceStrings(MaxPieces)}
    /\ ret = NoRet
    /\ track = NoTrack

CallSanitizeInput ==
    /\ call.fn = "sanitizeInput"
    /\ ~ret.done
    /\ ret' = [NoRet EXCEPT !.done = TRUE, !.str = sanitizeInput(call.args[1])]
    /\ UNCHANGED <<rows, discountField, supTotalField, totalField, lastSubmissionTime,
                   location, effect, call, track, other>>

\* sanitizeInput called on what the first call returned
CallSanitizeInputOnResult ==
    /\ call.fn = "sanitizeInput"
    /\ ret.done
    /\ call' = [fn |-> "sanitizeInput of a result", args |-> <<ret.str>>]
    /\ ret' = [NoRet EXCEPT !.done = TRUE, !.str = sanitizeInput(ret.str)]
    /\ UNCHANGED <<rows, discountField, supTotalField, totalField, lastSubmissionTime,
                   location, effect, track, other>>

NextSan == CallSanitizeInput \/ CallSanitizeInputOnResult

SpecSan == InitSan /\ [][NextSan]_vars

-----------------------------------------------------------------------------
(* Sales tracking: window.deleteSale, markAsDone, toggleStatus and           *)
(* rollbackSale of sales-track.js, and the routes of server.js that          *)
(* window.apiClient.deleteSale and updateSaleStatus end in.  track.sales is  *)
(* the sales array of the page, track.db the sales table of the server.      *)

Roles == {"admin", "salesman", "accountant"}

\* the sales loaded by initLoad
LoadedSales == <<[id |-> "s1", status |-> "Pending"], [id |-> "s2", status |-> "Completed"]>>

SaleIds == {"s1", "s2", "s3"}

\* the variables of the sales form
form == <<rows, discountField, supTotalField, totalField, lastSubmissionTime,
          location, effect, call, ret>>

\* sales.findIndex(s => s.id === id), counted from 1; 0 when there is none
IndexOf(id) ==
    IF \E i \in 1..Len(track.sales) : track.sales[i].id = id
    THEN CHOOSE i \in 1..Len(track.sales) :
             /\ track.sales[i].id = id
             /\ \A j \in 1..(i - 1) : track.sales[j].id # id
    ELSE 0

\* app.delete('/api/sales/:id'): the table once the route has run for an
\* authenticated request; outcome is what supabase answers
DeleteRoute(id, outcome) ==
    IF outcome = "ok" THEN {r \in track.db : r.id # id} ELSE track.db

\* app.patch('/api/sales/:id/status'): update({ status }).eq('id', id).select().single()
\* answers an error when no row has the id
PatchAnswer(id, outcome) ==
    IF outcome = "ok" /\ ~(\E r \in track.db : r.id = id) THEN "error" ELSE outcome

PatchRoute(id, status, outcome) ==
    IF PatchAnswer(id, outcome) = "ok"
    THEN {IF r.id = id THEN [r EXCEPT !.status = status] ELSE r : r \in track.db}
    ELSE track.db

\* the page is the sales tracking page
Tracking == track.page = "sales-track"

\* the page after a handler that showed no toast and asked nothing
Quiet == [track EXCEPT !.toast = "", !.confirmed = FALSE]

InitTrack ==
    /\ rows = updateAllTotals(<<BlankRow>>, <<>>).rows
    /\ discountField = <<>>
    /\ supTotalField = updateAllTotals(<<BlankRow>>, <<>>).supTotal
    /\ totalField = updateAllTotals(<<BlankRow>>, <<>>).total
    /\ lastSubmissionTime = 0
    /\ login = NoLogin
    /\ server = NoServer
    /\ expense = NoExpense
    /\ location = "sales-track"
    /\ effect = NoEffect
    /\ call = NoCall
    /\ ret = NoRet
    /\ \E role \in Roles :
           track = [NoTrack EXCEPT !.page = "sales-track", !.role = role,
                                   !.sales = LoadedSales, !.db = Range(LoadedSales)]

\* window.deleteSale(saleId)
deleteSale(saleId) ==
    /\ Tracking
    /\ track' = IF track.role # "admin"
                THEN [Quiet EXCEPT !.toast = "Permission Denied"]
                ELSE IF IndexOf(saleId) = 0
                THEN [Quiet EXCEPT !.toast = "Not Found"]
                ELSE [Quiet EXCEPT !.modal = saleId]
    /\ UNCHANGED <<form, other>>

\* a click on #confirmDeleteBtn while the delete modal shows: onConfirm of deleteSale
ConfirmDelete(client, outcome) ==
    /\ Tracking
    /\ track.modal # ""
    /\ track' = IF ~client \/ outcome # "ok"
                THEN [Quiet EXCEPT !.toast = "Delete operation failed"]
                ELSE [Quiet EXCEPT
                         !.db = DeleteRoute(track.modal, outcome),
                         !.sales = SelectSeq(track.sales, LAMBDA r : r.id # track.modal),
                         !.modal = ""]
    /\ UNCHANGED <<form, other>>

\* DELETE /api/sales/:id sent with the bearer token of the user, or with none
DeleteSaleRequest(id, authenticated, outcome) ==
    /\ Tracking
    /\ track' = IF authenticated
                THEN [Quiet EXCEPT !.db = DeleteRoute(id, outcome)]
                ELSE Quiet
    /\ UNCHANGED <<form, other>>

\* window.markAsDone(id)
markAsDone(id, client, outcome) ==
    /\ Tracking
    /\ track' = IF IndexOf(id) = 0 \/ track.sales[IndexOf(id)].status # "Pending"
                THEN Quiet
                ELSE IF ~client
                THEN [Quiet EXCEPT !.toast = "Configuration Error"]
                ELSE IF PatchAnswer(id, outcome) # "ok"
                THEN [Quiet EXCEPT !.toast = "Operation Failed"]
                ELSE [Quiet EXCEPT !.db = PatchRoute(id, "Completed", outcome),
                                   !.sales[IndexOf(id)].status = "Completed",
                                   !.page = "invoice"]
    /\ UNCHANGED <<form, other>>

\* window.toggleStatus(idx), idx counted from 1
toggleStatus(idx, client, outcome) ==
    /\ Tracking
    /\ track' = IF idx \notin 1..Len(track.sales)
                THEN Quiet
                ELSE IF ~client
                THEN [Quiet EXCEPT !.toast = "Configuration Error"]
                ELSE IF PatchAnswer(track.sales[idx].id, outcome) # "ok"
                THEN [Quiet EXCEPT !.toast = "Operation Failed"]
                ELSE [Quiet EXCEPT
                         !.db = PatchRoute(track.sales[idx].id,
                                           IF track.sales[idx].status = "Pending"
                                           THEN "Completed" ELSE "Pending",
                                           outcome),
                         !.sales[idx].status = IF track.sales[idx].status = "Pending"
                                               THEN "Completed" ELSE "Pending"]
    /\ UNCHANGED <<form, other>>

\* window.rollbackSale(id); confirmed is the answer to confirm(...)
rollbackSale(id, confirmed, client, outcome) ==
    /\ Tracking
    /\ track' = IF IndexOf(id) = 0 \/ track.sales[IndexOf(id)].status # "Completed"
                THEN Quiet
                ELSE IF ~confirmed
                THEN Quiet
                ELSE IF ~client \/ PatchAnswer(id, outcome) # "ok"
                THEN [Quiet EXCEPT !.confirmed = TRUE, !.toast = "Rollback Failed"]
                ELSE [Quiet EXCEPT !.confirmed = TRUE,
                                   !.db = PatchRoute(id, "Pending", outcome),
                                   !.sales[IndexOf(id)].status = "Pending",
                                   !.toast = "Rollback Successful"]
    /\ UNCHANGED <<form, other>>

NextTrack ==
    \/ \E id \in SaleIds : deleteSale(id)
    \/ \E client \in BOOLEAN, outcome \in CreateSaleResults : ConfirmDelete(client, outcome)
    \/ \E id \in SaleIds, authenticated \in BOOLEAN, outcome \in {"ok", "error"} :
           DeleteSaleRequest(id, authenticated, outcome)
    \/ \E id \in SaleIds, client \in BOOLEAN, outcome \in CreateSaleResults :
           markAsDone(id, client, outcome)
    \/ \E idx \in 1..Len(LoadedSales), client \in BOOLEAN, outcome \in CreateSaleResults :
           toggleStatus(idx, client, outcome)
    \/ \E id \in SaleIds, confirmed \in BOOLEAN, client \in BOOLEAN,
          outcome \in CreateSaleResults :
           rollbackSale(id, confirmed, client, outcome)

SpecTrack == InitTrack /\ [][NextTrack]_vars

-----------------------------------------------------------------------------
(* Login (login.js): the attempt counter of SecureLogin, its lockout and the *)
(* timer that lifts it.  login.now is the clock Date.now() reads, in          *)
(* milliseconds; login.lockoutBegan records the reading at which lockoutUser  *)
(* last ran (-1 before), login.last what the last handleLogin came to and     *)
(* login.called whether it called the login API.                              *)

maxAttempts == 5

\* 15 * 60 * 1000
lockoutTime == 900000

Minute == 60000

MaxMinutes == 20

LoginOutcomes == {"csrf failed", "error", "no user", "user"}

\* lockoutUser(): the duration after which its timer resets the counter
lockoutDuration(loginAttempts) ==
    MinInt((lockoutTime * loginAttempts) \div maxAttempts, 300000)

\* isRateLimited(): TRUE while the counter is at its maximum and lockoutTime has
\* not passed since lastAttemptTime
isRateLimited(l) ==
    l.loginAttempts >= maxAttempts /\ lockoutTime - (l.now - l.lastAttemptTime) > 0

\* what isRateLimited() leaves when it returns false
AfterRateCheck(l) ==
    [l EXCEPT !.loginAttempts = IF l.loginAttempts >= maxAttempts THEN 0 ELSE @,
              !.lastAttemptTime = l.now]

\* handleLoginError(error), with lockoutUser() at the maximum
handleLoginError(l, called) ==
    IF l.loginAttempts + 1 >= maxAttempts
    THEN [l EXCEPT !.loginAttempts = @ + 1,
                   !.timers = @ \cup {l.now + lockoutDuration(l.loginAttempts + 1)},
                   !.lockoutBegan = l.now, !.last = "locked", !.called = called]
    ELSE [l EXCEPT !.loginAttempts = @ + 1, !.last = "failed", !.called = called]

\* handleLogin(event) once isRateLimited() returned false
Attempt(l, formValid, outcome) ==
    IF ~formValid THEN [l EXCEPT !.last = "invalid form", !.called = FALSE]
    ELSE IF outcome = "csrf failed" THEN handleLoginError(l, FALSE)
    ELSE IF outcome = "user"
    THEN [l EXCEPT !.loginAttempts = 0, !.last = "success", !.called = TRUE,
                   !.loggedIn = TRUE]
    ELSE handleLoginError(l, TRUE)

InitLogin ==
    /\ rows = updateAllTotals(<<BlankRow>>, <<>>).rows
    /\ discountField = <<>>
    /\ supTotalField = updateAllTotals(<<BlankRow>>, <<>>).supTotal
    /\ totalField = updateAllTotals(<<BlankRow>>, <<>>).total
    /\ lastSubmissionTime = 0
    /\ location = "login"
    /\ effect = NoEffect
    /\ call = NoCall
    /\ ret = NoRet
    /\ track = NoTrack
    /\ login = NoLogin
    /\ server = NoServer
    /\ expense = NoExpense

\* the submit event of #loginForm, or Enter in it: handleLogin(event)
handleLogin(formValid, outcome) ==
    /\ location = "login"
    /\ ~login.loggedIn
    /\ login' = IF isRateLimited(login)
                THEN [login EXCEPT !.last = "refused", !.called = FALSE]
                ELSE Attempt(AfterRateCheck(login), formValid, outcome)
    /\ UNCHANGED <<form, track, server, expense>>

\* the callback of the setTimeout of lockoutUser()
UnlockTimer ==
    /\ location = "login"
    /\ \E t \in login.timers :
           /\ t <= login.now
           /\ login' = [login EXCEPT !.loginAttempts = 0, !.timers = @ \ {t}]
    /\ UNCHANGED <<form, track, server, expense>>

\* a minute passes; a timer that is due runs before the next minute does
Tick ==
    /\ location = "login"
    /\ login.now < MaxMinutes * Minute
    /\ \A t \in login.timers : t > login.now
    /\ login' = [login EXCEPT !.now = @ + Minute]
    /\ UNCHANGED <<form, track, server, expense>>

NextLogin ==
    \/ \E formValid \in BOOLEAN, outcome \in LoginOutcomes : handleLogin(formValid, outcome)
    \/ UnlockTimer
    \/ Tick

SpecLogin == InitLogin /\ [][NextLogin]_vars

-----------------------------------------------------------------------------
(* AccessControl (supabase.js): hasAccess, getVisiblePages and                *)
(* getVisibleNavigation.  null is the empty string; track.role is             *)
(* this.currentRole.  hasAccess returns "true" or "false" or ends in a        *)
(* "TypeError"; getVisibleNavigation yields what was thrown, if anything, and *)
(* the navigation object, a function from category names to page lists.       *)

rolePages ==
    [salesman |-> <<"sales.html", "sales-track.html", "quotation.html", "invoice.html",
                    "edit-sale.html">>,
     accountant |-> <<"expenses.html", "expenses-history.html", "statistics.html">>,
     admin |-> <<"*">>]

pageCategories ==
    [c \in {"Admin/Management", "Sales", "Accounting"} |->
        IF c = "Admin/Management" THEN <<"index.html", "capital-setup.html">>
        ELSE IF c = "Sales" THEN <<"sales.html", "sales-track.html">>
        ELSE <<"expenses.html", "expenses-history.html", "statistics.html">>]

\* names every object literal inherits from Object.prototype
ObjectPrototypeNames ==
    {"constructor", "toString", "valueOf", "hasOwnProperty", "isPrototypeOf",
     "propertyIsEnumerable", "toLocaleString", "__proto__"}

\* this.rolePages[role]: the array of the role, an inherited value that is not
\* an array, or undefined
RolePagesOf(role) ==
    IF role \in DOMAIN rolePages THEN rolePages[role]
    ELSE IF role \in ObjectPrototypeNames THEN "inherited"
    ELSE "undefined"

\* hasAccess once userRole = role || this.currentRole is known
AccessOfRole(pageName, userRole) ==
    IF userRole = "" THEN "false"
    ELSE IF userRole = "admin" THEN "true"
    ELSE IF RolePagesOf(userRole) = "undefined" THEN "false"
    ELSE IF RolePagesOf(userRole) = "inherited" THEN "TypeError"
    ELSE IF pageName \in Range(RolePagesOf(userRole)) THEN "true" ELSE "false"

hasAccess(pageName, role, currentRole) ==
    AccessOfRole(pageName, IF role # "" THEN role ELSE currentRole)

\* getVisiblePages() giving every role the pages of every category
getVisiblePages_EveryPage(currentRole) ==
    IF currentRole = "" THEN {}
    ELSE UNION {Range(pageCategories[c]) : c \in DOMAIN pageCategories}

\* getVisiblePages(): as a set, which is all that includes() reads of it
getVisiblePages(currentRole) ==
    IF currentRole = "" THEN {}
    ELSE IF currentRole = "admin"
    THEN UNION {Range(pageCategories[c]) : c \in DOMAIN pageCategories}
    ELSE IF RolePagesOf(currentRole) = "undefined" THEN {}
    ELSE Range(RolePagesOf(currentRole))

\* pages.filter(page => visiblePages.includes(page))
CategoryPages(category, currentRole) ==
    SelectSeq(pageCategories[category], LAMBDA page : page \in getVisiblePages(currentRole))

Returned(navigation) == [thrown |-> "", navigation |-> navigation]

getVisibleNavigation(currentRole) ==
    IF currentRole = "" THEN Returned(<<>>)
    ELSE IF currentRole = "admin" THEN Returned(pageCategories)
    ELSE IF RolePagesOf(currentRole) = "inherited"
    THEN [thrown |-> "TypeError", navigation |-> <<>>]
    ELSE Returned([c \in {k \in DOMAIN pageCategories : CategoryPages(k, currentRole) # <<>>} |->
                      CategoryPages(c, currentRole)])

\* the roles a profile or an argument may carry, the empty one being null
RoleValues == {"", "admin", "salesman", "accountant", "manager", "constructor"}

PageNames ==
    {"index.html", "capital-setup.html", "sales.html", "sales-track.html", "quotation.html",
     "invoice.html", "edit-sale.html", "expenses.html", "expenses-history.html",
     "statistics.html", "login.html", "*"}

AccessCalls ==
    {[fn |-> "hasAccess", args |-> <<p, r>>] : p \in PageNames, r \in RoleValues}
    \cup {[fn |-> "getVisibleNavigation", args |-> <<>>]}

InitAccess ==
    /\ rows = updateAllTotals(<<BlankRow>>, <<>>).rows
    /\ discountField = <<>>
    /\ supTotalField = updateAllTotals(<<BlankRow>>, <<>>).supTotal
    /\ totalField = updateAllTotals(<<BlankRow>>, <<>>).total
    /\ lastSubmissionTime = 0
    /\ location = "sales"
    /\ effect = NoEffect
    /\ call \in AccessCalls
    /\ ret = NoRet
    /\ \E role \in RoleValues : track = [NoTrack EXCEPT !.role = role]
    /\ login = NoLogin
    /\ server = NoServer
    /\ expense = NoExpense

CallHasAccess ==
    /\ call.fn = "hasAccess"
    /\ ~ret.done
    /\ ret' = [NoRet EXCEPT !.done = TRUE,
                            !.value = hasAccess(call.args[1], call.args[2], track.role)]
    /\ UNCHANGED <<rows, discountField, supTotalField, totalField, lastSubmissionTime,
                   location, effect, call, track, other>>

CallGetVisibleNavigation ==
    /\ call.fn = "getVisibleNavigation"
    /\ ~ret.done
    /\ ret' = [NoRet EXCEPT !.done = TRUE, !.value = getVisibleNavigation(track.role)]
    /\ UNCHANGED <<rows, discountField, supTotalField, totalField, lastSubmissionTime,
                   location, effect, call, track, other>>

NextAccess == CallHasAccess \/ CallGetVisibleNavigation

SpecAccess == InitAccess /\ [][NextAccess]_vars

-----------------------------------------------------------------------------
(* Sales tracking, step by step: markAsDone and rollbackSale up to their      *)
(* await and after it, and the reloads of the sales variable by initLoad and  *)
(* by the focus and storage listeners.  track.promise says that the sales     *)
(* variable holds the Promise loadSales() returned, track.loads counts the    *)
(* loadSales() calls whose await has not resumed, track.inflight holds the    *)
(* status updates awaited, and track.done tells what the handler that         *)
(* resumed last did: the answer it got and the id of the sale it wrote to.    *)

MaxLoads == 2

MaxInFlight == 1

\* .order('date', { ascending: false }): s3 is the newest sale, s2 the oldest
ServerOrder == <<"s3", "s1", "s2">>

\* GET /api/sales: the rows of the table, newest first
SalesInOrder(db) ==
    SelectSeq([i \in 1..Len(ServerOrder) |->
                  IF \E r \in db : r.id = ServerOrder[i]
                  THEN CHOOSE r \in db : r.id = ServerOrder[i]
                  ELSE [id |-> "", status |-> ""]] \o <<>>,
              LAMBDA r : r.id # "")

InitReload ==
    /\ rows = updateAllTotals(<<BlankRow>>, <<>>).rows
    /\ discountField = <<>>
    /\ supTotalField = updateAllTotals(<<BlankRow>>, <<>>).supTotal
    /\ totalField = updateAllTotals(<<BlankRow>>, <<>>).total
    /\ lastSubmissionTime = 0
    /\ login = NoLogin
    /\ server = NoServer
    /\ expense = NoExpense
    /\ location = "sales-track"
    /\ effect = NoEffect
    /\ call = NoCall
    /\ ret = NoRet
    /\ track = [NoTrack EXCEPT !.page = "sales-track", !.role = "salesman",
                               !.db = Range(LoadedSales), !.loads = 1]

\* the handler that resumed last did nothing to report
Idle == [track EXCEPT !.toast = "", !.done = NoDone]

\* a focus or a storage event: the listener registered first calls loadSales()
\* and awaits it, the one registered second assigns what loadSales() returns
FocusOrStorage ==
    /\ Tracking
    /\ track.loads < MaxLoads
    /\ track' = [Idle EXCEPT !.promise = TRUE, !.loads = @ + 1]
    /\ UNCHANGED <<form, other>>

\* an await of loadSales() resumes, in initLoad or in a listener registered first
LoadResolves(outcome) ==
    /\ Tracking
    /\ track.loads > 0
    /\ track' = [Idle EXCEPT !.promise = FALSE, !.loads = @ - 1,
                             !.sales = IF outcome = "ok" THEN SalesInOrder(track.db)
                                       ELSE <<>>]
    /\ UNCHANGED <<form, other>>

\* POST /api/sales from any authenticated client: a new sale enters the table
CreateSaleRequest ==
    /\ Tracking
    /\ ~(\E r \in track.db : r.id = "s3")
    /\ track' = [Idle EXCEPT !.db = @ \cup {[id |-> "s3", status |-> "Pending"]}]
    /\ UNCHANGED <<form, other>>

Thrown(fn, id, answer, toast) ==
    [Idle EXCEPT !.toast = toast,
                 !.done = [fn |-> fn, id |-> id, answer |-> answer, wrote |-> ""]]

\* window.markAsDone(id) up to its await
StartMarkAsDone(id, client) ==
    /\ Tracking
    /\ Len(track.inflight) < MaxInFlight
    /\ track' = IF track.promise
                THEN Thrown("markAsDone", id, "TypeError", "")
                ELSE IF IndexOf(id) = 0 \/ track.sales[IndexOf(id)].status # "Pending"
                THEN Idle
                ELSE IF ~client
                THEN Thrown("markAsDone", id, "no client", "Configuration Error")
                ELSE [Idle EXCEPT !.inflight = Append(@, [fn |-> "markAsDone", id |-> id,
                                                           idx |-> IndexOf(id),
                                                           status |-> "Completed"])]
    /\ UNCHANGED <<form, other>>

\* window.rollbackSale(id) up to its await; confirmed is the answer to confirm(...)
StartRollbackSale(id, confirmed, client) ==
    /\ Tracking
    /\ Len(track.inflight) < MaxInFlight
    /\ track' = IF track.promise
                THEN Thrown("rollbackSale", id, "TypeError", "")
                ELSE IF IndexOf(id) = 0 \/ track.sales[IndexOf(id)].status # "Completed"
                THEN Idle
                ELSE IF ~confirmed
                THEN Thrown("rollbackSale", id, "declined", "")
                ELSE IF ~client
                THEN Thrown("rollbackSale", id, "no client", "Rollback Failed")
                ELSE [Idle EXCEPT !.inflight = Append(@, [fn |-> "rollbackSale", id |-> id,
                                                           idx |-> IndexOf(id),
                                                           status |-> "Pending"])]
    /\ UNCHANGED <<form, other>>

\* the statements after the await writing sales[idx].status whatever the answer was
Resumed_Optimistic(c, answer) ==
    IF track.promise \/ c.idx > Len(track.sales)
    THEN Thrown(c.fn, c.id, answer, IF c.fn = "markAsDone" THEN "Operation Failed"
                                    ELSE "Rollback Failed")
    ELSE [Idle EXCEPT !.sales[c.idx].status = c.status,
                      !.page = IF c.fn = "markAsDone" THEN "invoice" ELSE @,
                      !.toast = IF c.fn = "markAsDone" THEN "" ELSE "Rollback Successful",
                      !.done = [fn |-> c.fn, id |-> c.id, answer |-> answer,
                                wrote |-> track.sales[c.idx].id]]

\* the statements of markAsDone and rollbackSale after their await: c is the
\* call, with the index it captured, answer what updateSaleStatus came to
Resumed(c, answer) ==
    IF answer # "ok" \/ track.promise \/ c.idx > Len(track.sales)
    THEN Thrown(c.fn, c.id, answer, IF c.fn = "markAsDone" THEN "Operation Failed"
                                    ELSE "Rollback Failed")
    ELSE [Idle EXCEPT !.sales[c.idx].status = c.status,
                      !.page = IF c.fn = "markAsDone" THEN "invoice" ELSE @,
                      !.toast = IF c.fn = "markAsDone" THEN "" ELSE "Rollback Successful",
                      !.done = [fn |-> c.fn, id |-> c.id, answer |-> answer,
                                wrote |-> track.sales[c.idx].id]]

\* the PATCH of an awaited updateSaleStatus is served and the handler resumes
StatusUpdateResolves(outcome) ==
    /\ Tracking
    /\ track.inflight # <<>>
    /\ track' = [Resumed(Head(track.inflight), PatchAnswer(Head(track.inflight).id, outcome))
                    EXCEPT !.inflight = Tail(track.inflight),
                           !.db = PatchRoute(Head(track.inflight).id,
                                             Head(track.inflight).status, outcome)]
    /\ UNCHANGED <<form, other>>

NextReload ==
    \/ FocusOrStorage
    \/ \E outcome \in CreateSaleResults : LoadResolves(outcome)
    \/ CreateSaleRequest
    \/ \E id \in SaleIds, client \in BOOLEAN : StartMarkAsDone(id, client)
    \/ \E id \in SaleIds, confirmed \in BOOLEAN, client \in BOOLEAN :
           StartRollbackSale(id, confirmed, client)
    \/ \E outcome \in CreateSaleResults : StatusUpdateResolves(outcome)

SpecReload == InitReload /\ [][NextReload]_vars

-----------------------------------------------------------------------------
(* csrfProtection (server.js).  A token is a number; crypto.randomBytes(32)   *)
(* never yields the same token twice, so the tokens issued are 1, 2, ... in   *)
(* turn and server.issued counts them.  server.csrfTokens is the Map, from    *)
(* tokens to the clock reading of their issue; server.accepted remembers the  *)
(* tokens whose request was let through; server.token and server.status are   *)
(* the token of the last request (0: none) and its answer.                    *)

MaxTokens == 3

MaxHalfHours == 3

\* 30 * 60 * 1000
HalfHour == 1800000

\* 60 * 60 * 1000
OneHour == 3600000

\* the map after the clean up of the tokens older than one hour
CleanedUp(csrfTokens, now) ==
    [t \in {u \in DOMAIN csrfTokens : ~(csrfTokens[u] < now - OneHour)} |-> csrfTokens[t]]

\* csrfProtection on a GET: a new token is stored and handed to the route
IssueToken(s) ==
    [s EXCEPT !.csrfTokens = CleanedUp((s.issued + 1 :> s.now) @@ s.csrfTokens, s.now),
              !.issued = @ + 1, !.token = 0, !.status = 200]

\* csrfProtection on another method that leaves the token in the map
ValidateToken_KeepingToken(s, token) ==
    IF token = 0 \/ token \notin DOMAIN s.csrfTokens
    THEN [s EXCEPT !.token = token, !.status = 403]
    ELSE [s EXCEPT !.token = token, !.status = 200,
                   !.accepted = @ \cup {token}]

\* csrfProtection on another method: 403, or the token is removed and next() runs
ValidateToken(s, token) ==
    IF token = 0 \/ token \notin DOMAIN s.csrfTokens
    THEN [s EXCEPT !.token = token, !.status = 403]
    ELSE [s EXCEPT !.token = token, !.status = 200,
                   !.csrfTokens = [t \in DOMAIN @ \ {token} |-> @[t]],
                   !.accepted = @ \cup {token}]

InitCsrf ==
    /\ rows = updateAllTotals(<<BlankRow>>, <<>>).rows
    /\ discountField = <<>>
    /\ supTotalField = updateAllTotals(<<BlankRow>>, <<>>).supTotal
    /\ totalField = updateAllTotals(<<BlankRow>>, <<>>).total
    /\ lastSubmissionTime = 0
    /\ login = NoLogin
    /\ server = NoServer
    /\ expense = NoExpense
    /\ location = "server"
    /\ effect = NoEffect
    /\ call = NoCall
    /\ ret = NoRet
    /\ track = NoTrack

\* GET /api/csrf-token
GetCsrfToken ==
    /\ location = "server"
    /\ server.issued < MaxTokens
    /\ server' = IssueToken(server)
    /\ UNCHANGED <<form, track, login, expense>>

\* POST /api/auth/login or /api/auth/register reaching csrfProtection with the
\* token of its x-csrf-token header or of its body, 0 when it has none
PostWithToken(token) ==
    /\ location = "server"
    /\ server' = ValidateToken(server, token)
    /\ UNCHANGED <<form, track, login, expense>>

\* half an hour passes on the server
ServerTick ==
    /\ location = "server"
    /\ server.now < MaxHalfHours * HalfHour
    /\ server' = [server EXCEPT !.now = @ + HalfHour, !.token = 0, !.status = 0]
    /\ UNCHANGED <<form, track, login, expense>>

NextCsrf ==
    \/ GetCsrfToken
    \/ \E token \in 0..MaxTokens : PostWithToken(token)
    \/ ServerTick

SpecCsrf == InitCsrf /\ [][NextCsrf]_vars

-----------------------------------------------------------------------------
(* The expense form (expenses.js).  expense.today is the day the clock of the *)
(* browser shows, counted in days since 1970-01-01; expense.date is the day   *)
(* in the date field (0: empty); expense.created is the entry createExpense   *)
(* was called with by the last submission, expense.saved whether it answered  *)
(* without error.                                                             *)

MAX_DESCRIPTION_LENGTH == 500

MAX_AMOUNT == Num(1000000)

MIN_AMOUNT == Fin(FALSE, <<1>>, -2)

ALLOWED_CATEGORIES == {<<"w", "o", "r", "k">>, <<"n", "o", "n", "-", "w", "o", "r", "k">>}

RATE_LIMIT_DELAY == 2000

\* new Date('2020-01-01'), in days since 1970-01-01
MinDay == 18262

validateExpenseAmount_NoMinimum(amount) ==
    IF IsNaN(parseFloat(sanitizeInput(amount)))
    THEN [isValid |-> FALSE, sanitizedValue |-> Zero]
    ELSE [isValid |-> ~Gt(parseFloat(sanitizeInput(amount)), MAX_AMOUNT),
          sanitizedValue |-> parseFloat(sanitizeInput(amount))]

validateExpenseAmount(amount) ==
    IF IsNaN(parseFloat(sanitizeInput(amount)))
    THEN [isValid |-> FALSE, sanitizedValue |-> Zero]
    ELSE [isValid |-> ~(Lt(parseFloat(sanitizeInput(amount)), MIN_AMOUNT)
                        \/ Gt(parseFloat(sanitizeInput(amount)), MAX_AMOUNT)),
          sanitizedValue |-> parseFloat(sanitizeInput(amount))]

validateExpenseDescription(description) ==
    IF sanitizeInput(description) = <<>>
    THEN [isValid |-> FALSE, sanitizedValue |-> <<>>]
    ELSE [isValid |-> ~(Len(sanitizeInput(description)) > MAX_DESCRIPTION_LENGTH),
          sanitizedValue |-> sanitizeInput(description)]

validateExpenseCategory(category) ==
    IF sanitizeInput(category) \notin ALLOWED_CATEGORIES
    THEN [isValid |-> FALSE, sanitizedValue |-> <<>>]
    ELSE [isValid |-> TRUE, sanitizedValue |-> sanitizeInput(category)]

\* validateExpenseDate(getCurrentSystemDate()): the day of the clock is not
\* before 2020-01-01; its midnight is never after the clock
validateExpenseDate(day) == [isValid |-> day >= MinDay, sanitizedValue |-> day]

\* the strings typed into the fields of the form
S_a500 == Tuple([i \in 1..500 |-> "a"])

S_rent == <<"r", "e", "n", "t">>

ExpenseValues(name) ==
    IF name = "description"
    THEN {<<>>, <<" ">>, <<"<", "b", ">">>, S_rent, S_a500, S_a500 \o <<"a">>,
          <<"<">> \o S_a500}
    ELSE IF name = "amount"
    THEN {<<>>, S_0, <<"0", ".", "0", "1">>, <<"0", ".", "0", "0", "9">>, S_5, S_5x,
          <<"1", "0", "0", "0", "0", "0", "0">>, S_2e6, S_abc, S_minus1, S_Infinity}
    ELSE {<<>>, <<"w", "o", "r", "k">>, <<" ", "w", "o", "r", "k">>,
          <<"n", "o", "n", "-", "w", "o", "r", "k">>, <<"W", "o", "r", "k">>, S_rent}

ClockDays == {18261, 20759}

DateValues == {0, 19000, 20759}

\* the validations of the three fields, memoised on the strings typed
ExpenseValidation ==
    [name \in {"description", "amount", "category"} |->
        Table([v \in ExpenseValues(name) |->
                  IF name = "description" THEN validateExpenseDescription(v)
                  ELSE IF name = "amount" THEN validateExpenseAmount(v)
                  ELSE validateExpenseCategory(v)])]

ExpenseRateLimited(e, now) ==
    e.lastExpenseSubmissionTime # 0 /\ now - e.lastExpenseSubmissionTime < RATE_LIMIT_DELAY

\* the entry handed to saveExpense
expenseEntry(e) ==
    [description |-> ExpenseValidation["description"][e.description].sanitizedValue,
     amount |-> ExpenseValidation["amount"][e.amount].sanitizedValue,
     date |-> e.today,
     category |-> ExpenseValidation["category"][e.category].sanitizedValue,
     type |-> "expense"]

\* expenseForm.reset() and the date field set to today again
ResetForm(e, now) ==
    [e EXCEPT !.description = <<>>, !.amount = <<>>, !.category = <<>>, !.date = e.today,
              !.lastExpenseSubmissionTime = now]

\* the rest of the handler when the validations passed: saveExpense(expenseEntry)
SaveExpense(e, now, client, result) ==
    IF ~client
    THEN [e EXCEPT !.toast = "Configuration Error"]
    ELSE IF result # "ok"
    THEN [e EXCEPT !.toast = "Save Failed", !.created = <<expenseEntry(e)>>]
    ELSE [ResetForm(e, now) EXCEPT !.toast = "Success", !.created = <<expenseEntry(e)>>,
                                   !.saved = TRUE]

\* the submit handler of #expenseForm after its rate limit check
ValidatedExpense(e, now, client, result) ==
    IF /\ ExpenseValidation["description"][e.description].isValid
       /\ ExpenseValidation["amount"][e.amount].isValid
       /\ validateExpenseDate(e.today).isValid
       /\ ExpenseValidation["category"][e.category].isValid
    THEN SaveExpense(e, now, client, result)
    ELSE [e EXCEPT !.toast = "Validation Errors"]

InitExpense ==
    /\ rows = updateAllTotals(<<BlankRow>>, <<>>).rows
    /\ discountField = <<>>
    /\ supTotalField = updateAllTotals(<<BlankRow>>, <<>>).supTotal
    /\ totalField = updateAllTotals(<<BlankRow>>, <<>>).total
    /\ lastSubmissionTime = 0
    /\ login = NoLogin
    /\ server = NoServer
    /\ location = "expenses"
    /\ effect = NoEffect
    /\ call = NoCall
    /\ ret = NoRet
    /\ track = NoTrack
    /\ \E day \in ClockDays : expense = [NoExpense EXCEPT !.today = day, !.date = day]

\* the handler that ran last left nothing to report
Untold == [expense EXCEPT !.toast = "", !.created = <<>>, !.saved = FALSE]

\* the user types into #description, #amount or #category
InputExpense(name, value) ==
    /\ location = "expenses"
    /\ expense' = [Untold EXCEPT ![name] = value]
    /\ UNCHANGED <<form, track, login, server>>

\* the user changes the value of #date
InputExpenseDate(day) ==
    /\ location = "expenses"
    /\ expense' = [Untold EXCEPT !.date = day]
    /\ UNCHANGED <<form, track, login, server>>

\* the submit event of #expenseForm at clock reading now
SubmitExpense(now, client, result) ==
    /\ location = "expenses"
    /\ expense' = IF ExpenseRateLimited(expense, now)
                  THEN [Untold EXCEPT !.toast = "Rate Limit"]
                  ELSE ValidatedExpense(Untold, now, client, result)
    /\ UNCHANGED <<form, track, login, server>>

NextExpense ==
    \/ \E name \in {"description", "amount", "category"} :
           \E value \in ExpenseValues(name) : InputExpense(name, value)
    \/ \E day \in DateValues : InputExpenseDate(day)
    \/ \E now \in ClockReadings, client \in BOOLEAN, result \in CreateSaleResults :
           SubmitExpense(now, client, result)

SpecExpense == InitExpense /\ [][NextExpense]_vars

-----------------------------------------------------------------------------
(* Statistics (statistics.js): isDateInRange and calculateFilteredStats.  A   *)
(* call carries what loadCapitalSettings, loadSales and loadExpenses answered *)
(* and the current date range, null being the empty string.                   *)

\* the UTF-16 code units of the characters of a date
CodeOf(c) == IF c = "-" THEN 45 ELSE IF c = "T" THEN 84 ELSE IF c = ":" THEN 58
             ELSE 48 + DigitVal(c)

\* a < b on strings: the first differing character decides, a proper prefix is less
RECURSIVE StrLt(_, _)
StrLt(a, b) ==
    IF b = <<>> THEN FALSE
    ELSE IF a = <<>> THEN TRUE
    ELSE IF Head(a) # Head(b) THEN CodeOf(Head(a)) < CodeOf(Head(b))
    ELSE StrLt(Tail(a), Tail(b))

\* dateStr.split('T')[0]
RECURSIVE DatePart(_)
DatePart(dateStr) ==
    IF dateStr = <<>> \/ Head(dateStr) = "T" THEN <<>>
    ELSE <<Head(dateStr)>> \o DatePart(Tail(dateStr))

\* isDateInRange testing the end of the range alone
isDateInRange_EndOnly(dateStr, currentStartDate, currentEndDate) ==
    IF currentStartDate = <<>> /\ currentEndDate = <<>> THEN TRUE
    ELSE IF currentEndDate # <<>> /\ StrLt(currentEndDate, DatePart(dateStr)) THEN FALSE
    ELSE TRUE

isDateInRange(dateStr, currentStartDate, currentEndDate) ==
    IF currentStartDate = <<>> /\ currentEndDate = <<>> THEN TRUE
    ELSE IF currentStartDate # <<>> /\ StrLt(DatePart(dateStr), currentStartDate) THEN FALSE
    ELSE IF currentEndDate # <<>> /\ StrLt(currentEndDate, DatePart(dateStr)) THEN FALSE
    ELSE TRUE

\* the sales.forEach of calculateFilteredStats: the sum and the count
RECURSIVE FilteredSales(_, _, _)
FilteredSales(sales, from, to) ==
    IF sales = <<>> THEN [totalSales |-> Zero, totalSalesCount |-> 0]
    ELSE IF Last(sales).status = "Completed" /\ isDateInRange(Last(sales).date, from, to)
    THEN [totalSales |-> Add(FilteredSales(Front(sales), from, to).totalSales,
                             OrZero(parseFloat(Last(sales).total))),
          totalSalesCount |-> FilteredSales(Front(sales), from, to).totalSalesCount + 1]
    ELSE FilteredSales(Front(sales), from, to)

\* the expenses.forEach of calculateFilteredStats
RECURSIVE FilteredExpenses(_, _, _)
FilteredExpenses(expenses, from, to) ==
    IF expenses = <<>> THEN Zero
    ELSE IF isDateInRange(Last(expenses).date, from, to) /\ Last(expenses).type = "expense"
    THEN Add(FilteredExpenses(Front(expenses), from, to),
             OrZero(parseFloat(Last(expenses).amount)))
    ELSE FilteredExpenses(Front(expenses), from, to)

StatsOf(originalCapital, sold, totalExpenses) ==
    [originalCapital |-> originalCapital,
     totalSales |-> sold.totalSales,
     totalSalesCount |-> sold.totalSalesCount,
     totalExpenses |-> totalExpenses,
     netChange |-> Sub(sold.totalSales, totalExpenses),
     currentCapital |-> Add(originalCapital, Sub(sold.totalSales, totalExpenses))]

calculateFilteredStats(originalCapital, sales, expenses, from, to) ==
    StatsOf(OrZero(originalCapital), FilteredSales(sales, from, to),
            FilteredExpenses(expenses, from, to))

\* the dates of the records and of the range
D_Nov1 == <<"2", "0", "2", "6", "-", "1", "1", "-", "0", "1">>

D_Nov2 == <<"2", "0", "2", "6", "-", "1", "1", "-", "0", "2">>

D_Nov3 == <<"2", "0", "2", "6", "-", "1", "1", "-", "0", "3">>

T_Morning == <<"T", "1", "0", ":", "0", "0", ":", "0", "0">>

MaxSales == 2

MaxExpenses == 1

\* each date of a sale goes with a total of its own, a power of two, so that a
\* sum tells which sales it counts
SaleRecords ==
    {[status |-> st, date |-> d[1], total |-> d[2]] :
        st \in {"Completed", "Pending"},
        d \in {<<D_Nov1 \o T_Morning, <<"1">>>>, <<D_Nov2 \o T_Morning, <<"2">>>>,
               <<D_Nov2, <<"4">>>>, <<D_Nov3 \o T_Morning, <<"8", ".", "5", "0">>>>}}

ExpenseRecords ==
    {[type |-> ty, date |-> d[1], amount |-> d[2]] :
        ty \in {"expense", "deposit"},
        d \in {<<D_Nov1, <<"1", "6">>>>, <<D_Nov2, <<"3", "2">>>>}}

RECURSIVE ListsOf(_, _)
ListsOf(S, n) ==
    IF n = 0 THEN {<<>>}
    ELSE ListsOf(S, n - 1) \cup {Append(l, x) : l \in ListsOf(S, n - 1), x \in S}

StatsCalls ==
    {[fn |-> "calculateFilteredStats", args |-> <<capital, sales, expenses, from, to>>] :
        capital \in {NaN, Num(100)}, sales \in ListsOf(SaleRecords, MaxSales),
        expenses \in ListsOf(ExpenseRecords, MaxExpenses),
        from \in {<<>>, D_Nov2}, to \in {<<>>, D_Nov2}}

InitStats ==
    /\ rows = updateAllTotals(<<BlankRow>>, <<>>).rows
    /\ discountField = <<>>
    /\ supTotalField = updateAllTotals(<<BlankRow>>, <<>>).supTotal
    /\ totalField = updateAllTotals(<<BlankRow>>, <<>>).total
    /\ lastSubmissionTime = 0
    /\ login = NoLogin
    /\ server = NoServer
    /\ expense = NoExpense
    /\ location = "statistics"
    /\ effect = NoEffect
    /\ call \in StatsCalls
    /\ ret = NoRet
    /\ track = NoTrack

CallCalculateFilteredStats ==
    /\ call.fn = "calculateFilteredStats"
    /\ ~ret.done
    /\ ret' = [NoRet EXCEPT !.done = TRUE,
                            !.value = calculateFilteredStats(call.args[1], call.args[2],
                                                             call.args[3], call.args[4],
                                                             call.args[5])]
    /\ UNCHANGED <<rows, discountField, supTotalField, totalField, lastSubmissionTime,
                   location, effect, call, track, other>>

NextStats == CallCalculateFilteredStats

SpecStats == InitStats /\ [][NextStats]_vars

-----------------------------------------------------------------------------
(* Properties *)

\* the number a field's text stands for
Typed(str) == parseFloat(str)

\* the field's text stands for a number in (0, max]
WithinLimit(str, max) == Gt(Typed(str), Zero) /\ Le(Typed(str), max)

\* the field is blank or its text stands for 0
ZeroOrBlank(str) == str = <<>> \/ IsZero(Typed(str))

\* a call of calculateRowTotal has returned
CalcReturned == call.fn = "calculateRowTotal" /\ ret.done

\* a call of validateNumericInput has returned
ValidateReturned == call.fn = "validateNumericInput" /\ ret.done

\* quantity and unitPrice of the call are within their limits
AmountArgs ==
    /\ WithinLimit(call.args[3], MaxQuantity)
    /\ WithinLimit(call.args[4], MaxPrice)

\* all four arguments of the call are within their limits
AreaArgs ==
    /\ WithinLimit(call.args[1], MaxDimension)
    /\ WithinLimit(call.args[2], MaxDimension)
    /\ AmountArgs

AreaProduct ==
    Mul(Mul(Mul(Typed(call.args[1]), Typed(call.args[2])), Typed(call.args[3])),
        Typed(call.args[4]))

\* the submit handler has just run
SubmitRan == effect # NoEffect

\* createSale was not called and the page did not change
NothingSubmitted == effect.sale = <<>> /\ location = "sales"

\* C1, as stated: for every width and length in (0, 10000], quantity in (0, 10000]
\* and unitPrice in (0, 1000000], calculateRowTotal returns
\* width * length * quantity * unitPrice.
C1_ProductForAllInRange ==
    (CalcReturned /\ AreaArgs) => ret.num = AreaProduct

\* C1, amended: for such arguments calculateRowTotal returns the product when the
\* product is at most Number.MAX_SAFE_INTEGER, and 0 when it is larger.
C1_ProductUnlessOverflow ==
    (CalcReturned /\ AreaArgs) =>
        ret.num = IF Gt(AreaProduct, MAX_SAFE_INTEGER) THEN Zero ELSE AreaProduct

\* an area-priced call within the limits has returned a total that is not 0
C1_AreaTotalReturned == CalcReturned /\ AreaArgs /\ ~IsZero(ret.num)

\* C2: for every quantity in (0, 10000] and unitPrice in (0, 1000000], when width
\* and length are both 0 or both blank, calculateRowTotal returns
\* quantity * unitPrice.
C2_FlatProduct ==
    (/\ CalcReturned
     /\ AmountArgs
     /\ \/ call.args[1] = <<>> /\ call.args[2] = <<>>
        \/ call.args[1] = S_0 /\ call.args[2] = S_0)
    => ret.num = Mul(Typed(call.args[3]), Typed(call.args[4]))

\* a flat-priced call with width and length "0" has returned a total that is not 0
C2_FlatTotalReturned ==
    /\ CalcReturned
    /\ AmountArgs
    /\ call.args[1] = S_0 /\ call.args[2] = S_0
    /\ ~IsZero(ret.num)

\* exactly one of width and length of the row is greater than 0, the other 0 or blank
ExactlyOnePositive(row) ==
    \/ Gt(Typed(row.width), Zero) /\ ZeroOrBlank(row.length)
    \/ Gt(Typed(row.length), Zero) /\ ZeroOrBlank(row.width)

\* C3, as stated: a row in which exactly one of width and length is greater than 0
\* (the other 0 or blank) has the total 0, and a submission holding it is flagged
\* as a validation error and not submitted.
C3_OneDimensionRejected ==
    \A i \in 1..Len(rows) :
        ExactlyOnePositive(rows[i]) =>
            /\ IsZero(RowTotal(rows[i]))
            /\ SubmitRan => (effect.toast = "Validation Error" /\ NothingSubmitted)

\* the product of the row's four fields, all within their limits, exceeds
\* Number.MAX_SAFE_INTEGER
Overflows(row) ==
    /\ WithinLimit(row.width, MaxDimension)
    /\ WithinLimit(row.length, MaxDimension)
    /\ WithinLimit(row.quantity, MaxQuantity)
    /\ WithinLimit(row.unitPrice, MaxPrice)
    /\ Gt(Mul(Mul(Mul(Typed(row.width), Typed(row.length)), Typed(row.quantity)),
              Typed(row.unitPrice)),
          MAX_SAFE_INTEGER)

\* C4, as stated: a row whose product exceeds Number.MAX_SAFE_INTEGER has the total
\* 0, and a submission holding it is rejected: createSale is not called.
C4_OverflowRejected ==
    \A i \in 1..Len(rows) :
        Overflows(rows[i]) =>
            /\ IsZero(RowTotal(rows[i]))
            /\ SubmitRan => NothingSubmitted

\* exactly one of width and length of the row is present: valid and greater than 0
OneDimensionPresent(row) ==
    WithinLimit(row.width, MaxDimension) # WithinLimit(row.length, MaxDimension)

\* the row lacks a valid quantity > 0 or a valid unitPrice > 0
AmountLacking(row) ==
    ~WithinLimit(row.quantity, MaxQuantity) \/ ~WithinLimit(row.unitPrice, MaxPrice)

\* C5: if the row count exceeds 50, or a row has exactly one of width and length
\* present, or a row lacks a valid quantity > 0 or a valid unitPrice > 0, the
\* submit handler does not call createSale and does not navigate.
C5_NothingSubmittedOnError ==
    (/\ SubmitRan
     /\ \/ Len(rows) > 50
        \/ \E i \in 1..Len(rows) : OneDimensionPresent(rows[i])
        \/ \E i \in 1..Len(rows) : AmountLacking(rows[i]))
    => NothingSubmitted

\* a submission with a named row that has a width and no length was refused
C5_OneDimensionRefused ==
    /\ SubmitRan
    /\ Len(rows) <= 50
    /\ \E i \in 1..Len(rows) :
           /\ OneDimensionPresent(rows[i])
           /\ ~AmountLacking(rows[i])
    /\ effect.toast = "Validation Error"
    /\ NothingSubmitted

\* every field of the row is empty
IsBlank(row) ==
    /\ row.item = <<>> /\ row.width = <<>> /\ row.length = <<>>
    /\ row.quantity = <<>> /\ row.unitPrice = <<>>

\* the row is named, has its amounts, and has both dimensions or neither
IsComplete(row) ==
    /\ row.item # <<>>
    /\ ~AmountLacking(row)
    /\ ~OneDimensionPresent(row)
    /\ (row.width = <<>>) = (row.length = <<>>)

\* C6, as stated: a submission made of valid rows plus one entirely blank row is
\* accepted and handed to createSale with only the non-blank rows.
C6_BlankRowDropped ==
    (/\ SubmitRan
     /\ effect.toast # "Configuration Error"
     /\ Len(rows) >= 2
     /\ \E b \in 1..Len(rows) :
            /\ IsBlank(rows[b])
            /\ \A i \in 1..Len(rows) \ {b} : IsComplete(rows[i]))
    => /\ effect.sale # <<>>
       /\ Len(effect.sale[1].items) = Len(rows) - 1

\* C7: a submission with more than 50 rows is rejected with the capacity message
\* without a row being validated and without createSale being called, and a
\* submission with 1 to 50 rows is not rejected for capacity.
C7_CapacityCheck ==
    SubmitRan =>
        /\ Len(rows) > 50 =>
               /\ effect.alert = "capacity"
               /\ effect.validatedRows = 0
               /\ effect.validationErrors = <<>>
               /\ effect.toast = ""
               /\ NothingSubmitted
        /\ Len(rows) \in 1..50 => effect.alert # "capacity"

\* a submission with 51 rows got the capacity message
C7_CapacityRefused == SubmitRan /\ Len(rows) = 51 /\ effect.alert = "capacity"

\* C8: if no row has a non-empty item name or a non-empty quantity, zero rows
\* included, the submission is rejected with an error and createSale is not called.
C8_NoItemsRejected ==
    (/\ SubmitRan
     /\ \A i \in 1..Len(rows) : rows[i].item = <<>> /\ rows[i].quantity = <<>>)
    => /\ effect.toast = "Validation Error" \/ effect.alert = "capacity"
       /\ NothingSubmitted

\* a submission of a form with zero rows was refused
C8_EmptyFormRefused ==
    SubmitRan /\ Len(rows) = 0 /\ effect.toast = "Validation Error" /\ NothingSubmitted

\* C9: validateNumericInput(value, min, max) returns {isValid: false,
\* sanitizedValue: 0} when the sanitized value does not parse,
\* {isValid: false, sanitizedValue: parsed} when parsed < min or parsed > max, and
\* {isValid: true, sanitizedValue: parsed} when min <= parsed <= max.
C9_ValidationResult ==
    ValidateReturned =>
        /\ IsNaN(Typed(sanitizeInput(call.args[1]))) =>
               (~ret.isValid /\ ret.num = Zero)
        /\ (\/ Lt(Typed(sanitizeInput(call.args[1])), call.args[2])
            \/ Gt(Typed(sanitizeInput(call.args[1])), call.args[3])) =>
               (~ret.isValid /\ ret.num = Typed(sanitizeInput(call.args[1])))
        /\ (/\ Le(call.args[2], Typed(sanitizeInput(call.args[1])))
            /\ Le(Typed(sanitizeInput(call.args[1])), call.args[3])) =>
               (ret.isValid /\ ret.num = Typed(sanitizeInput(call.args[1])))

\* a value equal to max was returned as valid
C9_MaxIsValid ==
    /\ ValidateReturned
    /\ Typed(sanitizeInput(call.args[1])) = call.args[3]
    /\ ret.isValid
    /\ ret.num = call.args[3]

\* the field is blank or its text stands for a number in [0, 10000]
DimensionWithinRange(str) ==
    str = <<>> \/ (Le(Zero, Typed(str)) /\ Le(Typed(str), MaxDimension))

\* C10, as stated: every item of a payload passed to createSale has a width and a
\* length that are each blank or within [0, 10000], a quantity within (0, 10000]
\* and a unitPrice within (0, 1000000].
C10_PayloadWithinBounds ==
    \A k \in 1..Len(effect.sale) :
        \A j \in 1..Len(effect.sale[k].items) :
            /\ DimensionWithinRange(effect.sale[k].items[j].width)
            /\ DimensionWithinRange(effect.sale[k].items[j].length)
            /\ WithinLimit(effect.sale[k].items[j].quantity, MaxQuantity)
            /\ WithinLimit(effect.sale[k].items[j].unitPrice, MaxPrice)

\* the sum of calculateRowTotal over the rows rs
RECURSIVE RowSum(_)
RowSum(rs) ==
    IF rs = <<>> THEN Zero
    ELSE Add(calculateRowTotal(Head(rs).width, Head(rs).length, Head(rs).quantity,
                               Head(rs).unitPrice),
             RowSum(Tail(rs)))

\* the number the discount field stands for, 0 when it stands for none
TypedDiscount == OrZero(Typed(discountField))

\* sum less discount percent of it, when the discount is above 0
Discounted(sum, discount) ==
    IF Gt(discount, Zero) THEN Sub(sum, DivBy100(Mul(sum, discount))) ELSE sum

\* C11: the supTotal field is the sum of calculateRowTotal over the current rows,
\* and the total field is that sum times (1 - discount/100) when discount > 0 and
\* the sum otherwise; the discount is taken off the unrounded sum, and each
\* field is rounded to 2 decimals when it is written.
C11_TotalsOfRows ==
    /\ supTotalField = ToFixed2(RowSum(rows))
    /\ totalField = ToFixed2(Discounted(RowSum(rows), TypedDiscount))

\* two rows of 0.625 each and a discount of 10: supTotal 1.25, total 1.125 written
\* as 1.13
C11_TwoRowsDiscounted ==
    /\ Len(rows) = 2
    /\ discountField = S_10
    /\ supTotalField = <<"1", ".", "2", "5">>
    /\ totalField = <<"1", ".", "1", "3">>

\* C12, as stated: every payload passed to createSale has a discount within
\* [0, 100], a total that is not negative and a total that is at most its suptotal.
C12_DiscountWithinRange ==
    \A k \in 1..Len(effect.sale) :
        /\ Le(Zero, effect.sale[k].discount)
        /\ Le(effect.sale[k].discount, Num(100))
        /\ Le(Zero, effect.sale[k].total)
        /\ Le(effect.sale[k].total, effect.sale[k].suptotal)

\* C13: for a discount in (0, 100] the total written by updateAllTotals is at most
\* the supTotal it wrote; for a discount of 0 the two are equal.
C13_TotalAtMostSupTotal ==
    /\ (Gt(TypedDiscount, Zero) /\ Le(TypedDiscount, Num(100))) =>
           Le(Typed(totalField), Typed(supTotalField))
    /\ IsZero(TypedDiscount) => totalField = supTotalField

\* a discount of 10 is in the field and the total is below a supTotal that is not 0
C13_TotalBelowSupTotal ==
    /\ discountField = S_10
    /\ Lt(Typed(totalField), Typed(supTotalField))

\* C14: after any sequence of row edits, discount edits and row removals the
\* itemTotal, supTotal and total fields are what updateAllTotals computes from the
\* current inputs, and the itemTotal of every item, the suptotal and the total of
\* a payload passed to createSale are what it computes from the payload's items
\* and the discount.
C14_TotalsRecomputed ==
    /\ rows = updateAllTotals(rows, discountField).rows
    /\ supTotalField = updateAllTotals(rows, discountField).supTotal
    /\ totalField = updateAllTotals(rows, discountField).total
    /\ \A k \in 1..Len(effect.sale) :
           /\ effect.sale[k].items =
                  updateAllTotals(effect.sale[k].items, discountField).rows
           /\ effect.sale[k].suptotal =
                  OrZero(Typed(updateAllTotals(effect.sale[k].items, discountField).supTotal))
           /\ effect.sale[k].total =
                  OrZero(Typed(updateAllTotals(effect.sale[k].items, discountField).total))

\* a payload with one item of 0.625 and a discount of 50 was passed to createSale
\* with the suptotal 0.63 and the total 0.31 of the two fields
C14_PayloadRecomputed ==
    /\ effect.sale # <<>>
    /\ Len(rows) = 1
    /\ discountField = S_50
    /\ effect.sale[1].suptotal = Typed(<<"0", ".", "6", "3">>)
    /\ effect.sale[1].total = Typed(<<"0", ".", "3", "1">>)

\* C15, as stated: a submission made less than 2000 ms after a submission that
\* reached createSale is stopped by the rate limiter: it gets the wait message,
\* no row is validated and createSale is not called.
C15_ResubmissionStopped ==
    [][(/\ effect.sale # <<>>
        /\ effect'.at > effect.at
        /\ effect'.at - effect.at < RATE_LIMIT_MS)
       => (/\ effect'.alert = "wait"
           /\ effect'.validatedRows = 0
           /\ effect'.sale = <<>>)]_vars

\* C16, as stated: sanitizeInput(sanitizeInput(x)) equals sanitizeInput(x): a call
\* on the result of a call returns its argument.
C16_SanitizeIdempotent ==
    call.fn = "sanitizeInput of a result" => ret.str = call.args[1]

\* the ids of the sales in a table or a list
IdsOf(sales) == {r.id : r \in sales}

\* C17, as stated: while the user's role is not admin, no delete, through
\* window.deleteSale or through an authenticated DELETE /api/sales/:id request,
\* removes a sale from the server's table or from the page's list.
C17_DeleteOnlyByAdmin ==
    [][track.role # "admin" =>
           /\ IdsOf(track'.db) = IdsOf(track.db)
           /\ IdsOf(Range(track'.sales)) = IdsOf(Range(track.sales))]_vars

\* C18, as stated: a sale's status changes only from Pending to Completed, or
\* from Completed to Pending and then only after the user confirmed the rollback.
C18_StatusTransitions ==
    [][\A i \in 1..Len(track.sales), j \in 1..Len(track'.sales) :
           (/\ track.sales[i].id = track'.sales[j].id
            /\ track.sales[i].status # track'.sales[j].status)
           => \/ /\ track.sales[i].status = "Pending"
                 /\ track'.sales[j].status = "Completed"
              \/ /\ track.sales[i].status = "Completed"
                 /\ track'.sales[j].status = "Pending"
                 /\ track'.confirmed]_vars

\* C19, as stated: with discount 0, calculateTotal of sales-track.js yields the
\* total that calculateRowTotal of sales.js yields for the same width, length,
\* quantity and unitPrice, written as the sales form writes it.
C19_SameTotal ==
    (call.fn = "calculateTotal" /\ ret.done) =>
        ret.str = TotalText(calculateRowTotal(call.args[1], call.args[2], call.args[3],
                                              call.args[4]))

\* the rules of the form that the rows break
RulesViolated ==
    (IF Len(rows) > MAX_ITEMS_PER_SALE THEN {"capacity"} ELSE {})
    \cup (IF \E i \in 1..Len(rows) : OneDimension(rows[i]) THEN {"both-or-neither"} ELSE {})
    \cup (IF \E i \in 1..Len(rows) : IsMissingAmount(FlagsOf(rows[i]))
          THEN {"quantity and unitPrice"} ELSE {})

\* the rules that the message shown by the submit handler names: the capacity
\* alert names the item limit, the "Validation Error" toast is one fixed text
\* about width with length and about quantity with unit price
RulesListed(e) ==
    IF e.alert = "capacity" THEN {"capacity"}
    ELSE IF e.toast = "Validation Error" THEN {"both-or-neither", "quantity and unitPrice"}
    ELSE {}

\* C20, as stated: when a submission breaks several rules at once, every row has
\* been validated and the one message shown lists every rule that is broken.
C20_EveryViolationListed ==
    (SubmitRan /\ Cardinality(RulesViolated) >= 2) =>
        /\ effect.validatedRows = Len(rows)
        /\ RulesViolated \subseteq RulesListed(effect)

\* C21, as stated: from the moment lockoutUser ran after the fifth failed attempt
\* until 15 minutes later, the attempt counter stays at its maximum and the last
\* handleLogin either set the lockout or was refused without calling the login API.
C21_LockedForFifteenMinutes ==
    (login.lockoutBegan >= 0 /\ login.now - login.lockoutBegan < lockoutTime) =>
        /\ login.loginAttempts >= maxAttempts
        /\ login.last \in {"locked", "refused"}
        /\ login.last = "refused" => ~login.called

\* the role hasAccess decides on: its role argument, the current role without one
UserRole == IF call.args[2] # "" THEN call.args[2] ELSE track.role

\* C22, as stated: hasAccess(page) is true for every page for admin, true for
\* salesman exactly on the five sales pages, true for accountant exactly on the
\* three accounting pages, and false for every page when no role is loaded or the
\* role is none of the three.
C22_AccessByRole ==
    (call.fn = "hasAccess" /\ ret.done) =>
        ret.value =
            IF UserRole = "admin" THEN "true"
            ELSE IF UserRole = "salesman"
            THEN (IF call.args[1] \in {"sales.html", "sales-track.html", "quotation.html",
                                       "invoice.html", "edit-sale.html"}
                  THEN "true" ELSE "false")
            ELSE IF UserRole = "accountant"
            THEN (IF call.args[1] \in {"expenses.html", "expenses-history.html",
                                       "statistics.html"}
                  THEN "true" ELSE "false")
            ELSE "false"

\* C29: when getVisibleNavigation() returns, every page it lists is a page for
\* which hasAccess is true for the current role; for a role other than admin
\* every category it lists holds at least one page; with no role loaded the
\* result is empty.
C29_NavigationWithinAccess ==
    (call.fn = "getVisibleNavigation" /\ ret.done /\ ret.value.thrown = "") =>
        /\ \A c \in DOMAIN ret.value.navigation :
               /\ \A i \in 1..Len(ret.value.navigation[c]) :
                      hasAccess(ret.value.navigation[c][i], "", track.role) = "true"
               /\ track.role # "admin" => ret.value.navigation[c] # <<>>
        /\ track.role = "" => ret.value.navigation = <<>>

\* getVisibleNavigation() returned to a salesman the Sales category alone, with
\* the two sales pages of the navigation
C29_SalesmanNavigation ==
    /\ call.fn = "getVisibleNavigation"
    /\ ret.done
    /\ track.role = "salesman"
    /\ DOMAIN ret.value.navigation = {"Sales"}
    /\ ret.value.navigation["Sales"] = <<"sales.html", "sales-track.html">>

C27_WritesTheSaleAsked ==
    track.done.wrote # "" => track.done.wrote = track.done.id

\* C28, as stated: on the sales tracking page the sales variable is an array,
\* never a pending Promise.
C28_SalesIsArray ==
    Tracking => ~track.promise

TypedAmount(e) == parseFloat(sanitizeInput(e.amount))

\* C25: createExpense is called only when the sanitized description has 1 to 500
\* characters, the amount lies in [0.01, 1000000] and the category is work or
\* non-work; otherwise nothing is saved; the entry carries the day of the clock,
\* whatever the date field holds.
C25_ExpenseValidated ==
    [][/\ expense'.created # <<>> =>
           /\ Len(sanitizeInput(expense.description)) \in 1..500
           /\ Le(MIN_AMOUNT, TypedAmount(expense)) /\ Le(TypedAmount(expense), MAX_AMOUNT)
           /\ sanitizeInput(expense.category) \in ALLOWED_CATEGORIES
           /\ expense'.created[1].date = expense.today
       /\ expense'.saved => expense'.created # <<>>]_vars

\* createExpense was called with a 500-character description and the day of the
\* clock while the date field held another day
C25_CreatedWithSystemDate ==
    /\ expense.created # <<>>
    /\ expense.date # expense.today
    /\ expense.created[1].date = expense.today
    /\ expense.created[1].description = S_a500

\* the day of a date string as the number YYYYMMDD
DayNumber(dateStr) ==
    IntOfNat(DigitsOf(SelectSeq(Take(dateStr, 10), LAMBDA c : c # "-")))

\* the date lies in the inclusive range, an empty end of the range being open
WithinRange(dateStr, from, to) ==
    /\ from # <<>> => DayNumber(from) <= DayNumber(dateStr)
    /\ to # <<>> => DayNumber(dateStr) <= DayNumber(to)

\* the sum of total over the Completed sales of the list dated within the range
RECURSIVE SumCompleted(_, _, _)
SumCompleted(sales, from, to) ==
    IF sales = <<>> THEN Zero
    ELSE IF Head(sales).status = "Completed" /\ WithinRange(Head(sales).date, from, to)
    THEN Add(Typed(Head(sales).total), SumCompleted(Tail(sales), from, to))
    ELSE SumCompleted(Tail(sales), from, to)

\* the sum of amount over the expenses of type 'expense' dated within the range
RECURSIVE SumExpenses(_, _, _)
SumExpenses(expenses, from, to) ==
    IF expenses = <<>> THEN Zero
    ELSE IF Head(expenses).type = "expense" /\ WithinRange(Head(expenses).date, from, to)
    THEN Add(Typed(Head(expenses).amount), SumExpenses(Tail(expenses), from, to))
    ELSE SumExpenses(Tail(expenses), from, to)

CompletedSales == SumCompleted(call.args[2], call.args[4], call.args[5])

RangeExpenses == SumExpenses(call.args[3], call.args[4], call.args[5])

\* C26: calculateFilteredStats returns currentCapital = originalCapital +
\* totalSales - totalExpenses, totalSales summing the Completed sales dated within
\* the inclusive range and totalExpenses the expenses of type 'expense' within it.
C26_CapitalOfRange ==
    (call.fn = "calculateFilteredStats" /\ ret.done) =>
        /\ ret.value.totalSales = CompletedSales
        /\ ret.value.totalExpenses = RangeExpenses
        /\ ret.value.currentCapital =
               Sub(Add(OrZero(call.args[1]), CompletedSales), RangeExpenses)

\* a call whose range is one day, on a Completed sale and a Pending sale of
\* that day and an expense: the Completed sale alone makes totalSales
C26_OnlyCompletedOfTheDay ==
    /\ call.fn = "calculateFilteredStats"
    /\ ret.done
    /\ call.args[4] = D_Nov2 /\ call.args[5] = D_Nov2
    /\ call.args[2] = <<[status |-> "Completed", date |-> D_Nov2 \o T_Morning, total |-> <<"2">>],
                        [status |-> "Pending", date |-> D_Nov2, total |-> <<"4">>]>>
    /\ call.args[3] # <<>>
    /\ ret.value.totalSales = Num(2)

====
